---- MODULE Spec2Model ----
(***************************************************************************)
(* Matchmaking scheduler, room/session manager and realtime gateway of     *)
(* the LanguageGames server (src/server/services/matchmaking.ts,           *)
(* src/server/socket/handlers.ts, src/server/services/gameSession.ts).     *)
(*                                                                         *)
(* Time.  Every decision of the server compares a difference of two        *)
(* Date.now() readings with a configured delay, so timestamps are kept     *)
(* relative to the current instant: Now is 0, a stored timestamp t stands  *)
(* for "t ms from now" (negative: in the past), and the passage of d ms    *)
(* (action Advance) lowers every stored timestamp by d.  A timestamp older *)
(* than Horizon is clipped to -Horizon: no delay of the server is longer.  *)
(***************************************************************************)
EXTENDS Integers, Sequences, FiniteSets, TLC

\* ------------------------------------------------------------------------
\* Bounds of the model
\* ------------------------------------------------------------------------
MaxRooms == 3
MaxScore == 2
MaxSessions == 2
NumPairs == 2
MaxCalls == 2
MaxEvents == 62
MaxGames == 40
EloSpan == 850

SocketIds == {"s1", "s2", "s3"}
UserIds == {"u1", "u2", "u3"}
GameTypes == {"race", "asteroid"}
RoomIds == 1..MaxRooms
Codes == 1..MaxRooms
ClockSteps == {15000}

\* ------------------------------------------------------------------------
\* Configuration (src/server/config.ts)
\* ------------------------------------------------------------------------
MATCHMAKING_TICK_MS == 3000
MATCHMAKING_BOT_FALLBACK_MS == 60000
Infinity == 1000000000
MATCHMAKING_RANGE_SCHEDULE ==
  << [afterMs |-> 0, range |-> 100],
     [afterMs |-> 10000, range |-> 200],
     [afterMs |-> 20000, range |-> 350],
     [afterMs |-> 30000, range |-> 500],
     [afterMs |-> 45000, range |-> Infinity] >>
DEFAULT_ELO == 1000
ROOM_PURGE_DELAY_MS == 60000
RATE_WINDOW_MS == 10000

Horizon == MATCHMAKING_BOT_FALLBACK_MS
Now == 0
NoValue == "undefined"
Null == "null"
Started == "started"
NoPlayer == [socketId |-> Null, userId |-> Null, elo |-> 0, score |-> 0]
NoTick == [ran |-> FALSE]
NoScore == [ran |-> FALSE]
NoRow == [exists |-> FALSE]
NoRoom == [found |-> FALSE]
NoEvent == [op |-> "none"]

\* ------------------------------------------------------------------------
\* State
\* ------------------------------------------------------------------------
VARIABLES
  sockets,           \* per connection: connected, isAuthenticated, userId, elo
  matchmakingQueue,  \* gameType -> array of QueueEntry
  queueKeys,         \* insertion order of the keys of the matchmakingQueue Map
  activeRooms,       \* roomId -> GameRoom
  roomCodeMap,       \* roomCode -> roomId
  inflight,          \* suspended async calls, each at its pending await
  timers,            \* pending setTimeout(() => deleteRoom(roomId), 60000)
  tickTimer,         \* ms until the setInterval timer of the tick is due
  game_sessions,     \* table game_sessions (append-only)
  elo_ratings,       \* table elo_ratings, keyed by user_id, game_type
  user_stats,        \* table user_stats, keyed by user_id, game_type
  outbox,            \* events emitted to sockets
  endLog,            \* observation: the endGame calls that ran to their end
  lastScore,         \* observation: the last updateScore event and the scores before it
  lastTick,          \* observation: the queues a tick ran on and the rooms it made
  socketRateLimits,  \* socketId -> { count, resetAt } of the in-memory limiter
  lastEvent          \* observation: the last gateway event and the state before it

queueVars == << matchmakingQueue, queueKeys, tickTimer, lastTick >>
roomVars == << activeRooms, roomCodeMap >>
dbVars == << game_sessions, elo_ratings, user_stats >>
obsVars == << outbox, endLog, lastScore >>
connVars == << sockets, socketRateLimits >>
vars == << connVars, queueVars, roomVars, inflight, timers, dbVars, obsVars, lastEvent >>

\* ------------------------------------------------------------------------
\* Helpers
\* ------------------------------------------------------------------------
Abs(x) == IF x < 0 THEN -x ELSE x

Max(a, b) == IF a >= b THEN a ELSE b

Clip(t) == IF t < -Horizon THEN -Horizon ELSE t

\* Array.prototype.splice(i, 1) on a 1-based sequence
Splice(arr, i) == [k \in 1..(Len(arr) - 1) |-> IF k < i THEN arr[k] ELSE arr[k + 1]]

\* Array.prototype.findIndex, given the indices that satisfy the test: the least
\* of them, 0 for -1
FindIndex(hits) ==
  IF hits = {} THEN 0 ELSE CHOOSE j \in hits : \A k \in hits : j <= k

Range(arr) == {arr[k] : k \in 1..Len(arr)}

Without(f, key) == [k \in DOMAIN f \ {key} |-> f[k]]

With(f, key, value) == [k \in DOMAIN f \cup {key} |-> IF k = key THEN value ELSE f[k]]

\* per-user, per-category ratings as loaded from the store at authentication
StoredElo ==
  [u \in UserIds |->
     CASE u = "u1" -> [race |-> 1000, asteroid |-> 1000]
       [] u = "u2" -> [race |-> 1150, asteroid |-> 1050]
       [] OTHER    -> [race |-> 1400, asteroid |-> 1600]]

\* the elo_ratings rows of these users
StoredGames == [u \in UserIds |-> CASE u = "u1" -> 14 [] u = "u2" -> 29 [] OTHER -> 30]

StoredRatings ==
  [u \in UserIds |-> [g \in GameTypes |->
     [exists |-> TRUE, elo |-> StoredElo[u][g], peak_elo |-> StoredElo[u][g],
      games_played |-> StoredGames[u]]]]

UserOfSocket == [s \in SocketIds |->
     CASE s = "s1" -> "u1" [] s = "s2" -> "u2" [] OTHER -> "u3"]

BotId(roomId) == "bot_" \o ToString(roomId)

\* ------------------------------------------------------------------------
\* Range expansion
\* ------------------------------------------------------------------------
RECURSIVE RangeFrom(_, _)
RangeFrom(waitMs, i) ==
  IF i < 1 THEN MATCHMAKING_RANGE_SCHEDULE[1].range
  ELSE IF waitMs >= MATCHMAKING_RANGE_SCHEDULE[i].afterMs
       THEN MATCHMAKING_RANGE_SCHEDULE[i].range
       ELSE RangeFrom(waitMs, i - 1)

\* the loop returns the last step of the schedule without testing the wait
getEloRangeForWaitTimeLastStep(waitMs) ==
  MATCHMAKING_RANGE_SCHEDULE[Len(MATCHMAKING_RANGE_SCHEDULE)].range

getEloRangeForWaitTime(waitMs) == RangeFrom(waitMs, Len(MATCHMAKING_RANGE_SCHEDULE))

\* ------------------------------------------------------------------------
\* Rating engine (src/server/services/elo.ts)
\* ------------------------------------------------------------------------
ELO_MIN_FLOOR == 100
ELO_MIN_CHANGE == 1
ELO_K_PROVISIONAL == 40
ELO_K_DEVELOPING == 32
ELO_K_ESTABLISHED == 20
ELO_GAMES_PROVISIONAL == 15
ELO_GAMES_ESTABLISHED == 30
ELO_SEED_CAP_MAX == 1400
ELO_UPSET_THRESHOLD == 200

getKFactorInclusive(gamesPlayed) ==
  IF gamesPlayed <= ELO_GAMES_PROVISIONAL THEN ELO_K_PROVISIONAL
  ELSE IF gamesPlayed <= ELO_GAMES_ESTABLISHED THEN ELO_K_DEVELOPING
  ELSE ELO_K_ESTABLISHED

getKFactor(gamesPlayed) ==
  IF gamesPlayed < ELO_GAMES_PROVISIONAL THEN ELO_K_PROVISIONAL
  ELSE IF gamesPlayed < ELO_GAMES_ESTABLISHED THEN ELO_K_DEVELOPING
  ELSE ELO_K_ESTABLISHED

\* Math.round(change) of calculateNewElo, change = kFactor * (result - expected)
\* times ELO_UPSET_MULTIPLIER on an upset, as a step function of
\* eloDiff = opponentElo - playerElo: the value is low below the first step and
\* rises by one at every listed eloDiff (IEEE doubles, Math.round rounds half
\* up). result2 is twice the result: 0 loss, 1 draw, 2 win.
RoundedSteps(kFactor, result2) ==
  IF kFactor = 40 /\ result2 = 0 THEN
    [low |-> -48, steps |-> <<
       -791, -596, -504, -441, -394, -355, -322, -292, -266, -243, -221,
       -200, -199, -199, -199, -199, -199, -199, -179, -157, -136, -117,
       -98, -79, -61, -43, -26, -8, 9, 27, 44, 62, 80, 99, 118, 137, 158,
       180, 203, 228, 255, 285, 319, 359, 408, 471, 564, 760 >>]
  ELSE IF kFactor = 40 /\ result2 = 1 THEN
    [low |-> -20, steps |-> <<
       -759, -563, -470, -407, -358, -318, -284, -254, -227, -202, -179,
       -157, -136, -117, -98, -79, -61, -43, -26, -8, 9, 27, 44, 62, 80,
       99, 118, 137, 158, 180, 203, 228, 255, 285, 319, 359, 408, 471, 564,
       760 >>]
  ELSE IF kFactor = 40 /\ result2 = 2 THEN
    [low |-> 0, steps |-> <<
       -759, -563, -470, -407, -358, -318, -284, -254, -227, -202, -179,
       -157, -136, -117, -98, -79, -61, -43, -26, -8, 9, 27, 44, 62, 80,
       99, 118, 137, 158, 180, 200, 200, 200, 200, 200, 200, 201, 222, 244,
       267, 293, 323, 356, 395, 442, 505, 597, 792 >>]
  ELSE IF kFactor = 32 /\ result2 = 0 THEN
    [low |-> -38, steps |-> <<
       -647, -513, -435, -378, -333, -296, -263, -234, -208, -199, -199,
       -199, -199, -199, -176, -149, -124, -100, -77, -54, -32, -10, 11,
       33, 55, 78, 101, 125, 150, 177, 206, 238, 274, 315, 365, 429, 524,
       720 >>]
  ELSE IF kFactor = 32 /\ result2 = 1 THEN
    [low |-> -16, steps |-> <<
       -719, -523, -428, -364, -314, -273, -237, -205, -176, -149, -124,
       -100, -77, -54, -32, -10, 11, 33, 55, 78, 101, 125, 150, 177, 206,
       238, 274, 315, 365, 429, 524, 720 >>]
  ELSE IF kFactor = 32 /\ result2 = 2 THEN
    [low |-> 0, steps |-> <<
       -719, -523, -428, -364, -314, -273, -237, -205, -176, -149, -124,
       -100, -77, -54, -32, -10, 11, 33, 55, 78, 101, 125, 150, 177, 200,
       200, 200, 200, 200, 209, 235, 264, 297, 334, 379, 436, 514, 648 >>]
  ELSE IF kFactor = 20 /\ result2 = 0 THEN
    [low |-> -24, steps |-> <<
       -668, -470, -373, -307, -254, -210, -199, -199, -199, -168, -126,
       -88, -52, -17, 18, 53, 89, 127, 169, 215, 270, 339, 437, 637 >>]
  ELSE IF kFactor = 20 /\ result2 = 1 THEN
    [low |-> -10, steps |-> <<
       -636, -436, -338, -269, -214, -168, -126, -88, -52, -17, 18, 53, 89,
       127, 169, 215, 270, 339, 437, 637 >>]
  ELSE IF kFactor = 20 /\ result2 = 2 THEN
    [low |-> 0, steps |-> <<
       -636, -436, -338, -269, -214, -168, -126, -88, -52, -17, 18, 53, 89,
       127, 169, 200, 200, 200, 211, 255, 308, 374, 471, 669 >>]
  ELSE [low |-> 0, steps |-> << >>]

RoundedChangeNoUpset(kFactor, result2, eloDiff) ==
  LET t == RoundedSteps(kFactor, 1)
  IN t.low + Cardinality({i \in 1..Len(t.steps) : eloDiff >= t.steps[i]})
       + (result2 - 1) * (kFactor \div 2)

RoundedChange(kFactor, result2, eloDiff) ==
  LET t == RoundedSteps(kFactor, result2)
  IN t.low + Cardinality({i \in 1..Len(t.steps) : eloDiff >= t.steps[i]})

calculateNewEloUnfloored(playerElo, opponentElo, result2, kFactor) ==
  LET rounded == RoundedChange(kFactor, result2, opponentElo - playerElo)
      clampedChange == Max(ELO_MIN_CHANGE, Abs(rounded)) * (IF rounded >= 0 THEN 1 ELSE -1)
  IN playerElo + clampedChange

calculateNewElo(playerElo, opponentElo, result2, kFactor) ==
  LET rounded == RoundedChange(kFactor, result2, opponentElo - playerElo)
      clampedChange == Max(ELO_MIN_CHANGE, Abs(rounded)) * (IF rounded >= 0 THEN 1 ELSE -1)
      newElo == playerElo + clampedChange
  IN Max(ELO_MIN_FLOOR, newElo)

\* ------------------------------------------------------------------------
\* Rooms
\* ------------------------------------------------------------------------
Player(e) == [socketId |-> e.socketId, userId |-> e.userId, elo |-> e.elo, score |-> 0]

BOT_ELO_EASY == 1200
BOT_ELO_MEDIUM == 1500

getBotConfigInclusive(playerElo) ==
  IF playerElo <= BOT_ELO_EASY THEN [accuracy |-> 50, name |-> "EasyBot"]
  ELSE IF playerElo <= BOT_ELO_MEDIUM THEN [accuracy |-> 65, name |-> "MediumBot"]
  ELSE [accuracy |-> 80, name |-> "HardBot"]

\* getBotConfig: the accuracy in hundredths (0.5, 0.65, 0.8) and the name
getBotConfig(playerElo) ==
  IF playerElo < BOT_ELO_EASY THEN [accuracy |-> 50, name |-> "EasyBot"]
  ELSE IF playerElo < BOT_ELO_MEDIUM THEN [accuracy |-> 65, name |-> "MediumBot"]
  ELSE [accuracy |-> 80, name |-> "HardBot"]

createBotRoom(roomId, roomCode, gameType, player) ==
  [roomId |-> roomId, roomCode |-> roomCode, gameType |-> gameType,
   player1 |-> Player(player),
   player2 |-> [socketId |-> BotId(roomId), userId |-> BotId(roomId),
                elo |-> player.elo, score |-> 0],
   pairs |-> << >>, isActive |-> FALSE, startedAt |-> NoValue, mode |-> "bot_fallback"]

createRankedRoom(roomId, roomCode, gameType, player1, player2) ==
  [roomId |-> roomId, roomCode |-> roomCode, gameType |-> gameType,
   player1 |-> Player(player1), player2 |-> Player(player2),
   pairs |-> << >>, isActive |-> FALSE, startedAt |-> NoValue, mode |-> "ranked"]

\* room ids a live room or a pending callback still names
NamedRoomIds ==
  DOMAIN activeRooms \cup {c.roomId : c \in {x \in inflight : x.op # "authenticate"}}
    \cup {t.roomId : t \in timers}

Least(S) == CHOOSE x \in S : \A y \in S : x <= y

\* the next n values of a generator that returns the least value not in taken
RECURSIVE Fresh(_, _, _)
Fresh(pool, taken, n) ==
  IF n = 0 THEN << >>
  ELSE LET x == Least(pool \ taken) IN << x >> \o Fresh(pool, taken \cup {x}, n - 1)

\* uuidv4(): an id that names no room; the n ids of n successive calls
uuidv4(n) == Fresh(RoomIds, NamedRoomIds, n)

\* the code drawn is returned without a look at roomCodeMap
generateRoomCodeOnce(n) == Fresh(Codes, {}, n)

\* generateRoomCode(): redrawn while roomCodeMap has the code; n successive calls
generateRoomCode(n) == Fresh(Codes, DOMAIN roomCodeMap, n)

TotalQueued ==
  LET RECURSIVE Sum(_)
      Sum(gs) == IF gs = {} THEN 0
                 ELSE LET g == CHOOSE x \in gs : TRUE
                      IN Len(matchmakingQueue[g]) + Sum(gs \ {g})
  IN Sum(GameTypes)

\* ------------------------------------------------------------------------
\* Queue management
\* ------------------------------------------------------------------------
\* only an entry of the same connection makes the call a no-op
joinQueueSameSocketOnly(entry) ==
  LET queue == matchmakingQueue[entry.gameType]
  IN IF \E k \in 1..Len(queue) : queue[k].socketId = entry.socketId
     THEN UNCHANGED << matchmakingQueue, queueKeys >>
     ELSE /\ matchmakingQueue' =
               [matchmakingQueue EXCEPT ![entry.gameType] = Append(queue, entry)]
          /\ queueKeys' = IF entry.gameType \in Range(queueKeys)
                          THEN queueKeys ELSE Append(queueKeys, entry.gameType)

joinQueue(entry) ==
  LET queue == matchmakingQueue[entry.gameType]
  IN IF \E k \in 1..Len(queue) :
          queue[k].socketId = entry.socketId \/ queue[k].userId = entry.userId
     THEN UNCHANGED << matchmakingQueue, queueKeys >>
     ELSE /\ matchmakingQueue' =
               [matchmakingQueue EXCEPT ![entry.gameType] = Append(queue, entry)]
          /\ queueKeys' = IF entry.gameType \in Range(queueKeys)
                          THEN queueKeys ELSE Append(queueKeys, entry.gameType)

\* only the queue of the first category is filtered
leaveQueueFirstCategory(socketId) ==
  [g \in GameTypes |->
     IF queueKeys # << >> /\ g = queueKeys[1]
     THEN SelectSeq(matchmakingQueue[g], LAMBDA q : q.socketId # socketId)
     ELSE matchmakingQueue[g]]

leaveQueue(socketId) ==
  [g \in GameTypes |-> SelectSeq(matchmakingQueue[g], LAMBDA q : q.socketId # socketId)]

\* nothing is required of the sender
requireSocketAuthOpen(s) == TRUE

\* The guard every handler starts with
requireSocketAuth(s) ==
  sockets[s].isAuthenticated /\ sockets[s].userId # NoValue

\* the count is compared before it is raised
checkSocketRateLimitBeforeCount(socketId, maxPerWindow) ==
  IF socketId \notin DOMAIN socketRateLimits \/ Now > socketRateLimits[socketId].resetAt
  THEN [allowed |-> TRUE,
        limits |-> With(socketRateLimits, socketId,
                        [count |-> 1, resetAt |-> Now + RATE_WINDOW_MS])]
  ELSE [allowed |-> socketRateLimits[socketId].count <= maxPerWindow,
        limits |-> [socketRateLimits EXCEPT ![socketId].count = @ + 1]]

\* checkSocketRateLimit: whether the event is allowed, and the limiter after it
checkSocketRateLimit(socketId, maxPerWindow) ==
  IF socketId \notin DOMAIN socketRateLimits \/ Now > socketRateLimits[socketId].resetAt
  THEN [allowed |-> TRUE,
        limits |-> With(socketRateLimits, socketId,
                        [count |-> 1, resetAt |-> Now + RATE_WINDOW_MS])]
  ELSE [allowed |-> socketRateLimits[socketId].count + 1 <= maxPerWindow,
        limits |-> [socketRateLimits EXCEPT ![socketId].count = @ + 1]]

clearSocketRateLimit(socketId) ==
  IF socketId \in DOMAIN socketRateLimits THEN Without(socketRateLimits, socketId)
  ELSE socketRateLimits

\* checkRate of a handler that goes on: the limiter counted the event and allowed
\* it. The handlers below describe what follows this guard.
checkRate(s, maxPerWindow) ==
  LET res == checkSocketRateLimit(s, maxPerWindow)
  IN /\ res.allowed
     /\ socketRateLimits' = res.limits

\* a client that keeps far below the budget of its window: its limiter lets
\* every event pass and is not followed
InBudget == UNCHANGED socketRateLimits

\* socket.on('joinQueue')
JoinQueue(s, gameType) ==
  /\ sockets[s].connected
  /\ requireSocketAuth(s)
  /\ Cardinality(NamedRoomIds) + TotalQueued < MaxRooms
  /\ joinQueue([socketId |-> s, userId |-> sockets[s].userId,
                elo |-> sockets[s].elo[gameType], gameType |-> gameType,
                joinedAt |-> Now, botFallbackMs |-> NoValue])
  /\ lastTick' = NoTick
  /\ lastEvent' = [op |-> "joinQueue", by |-> s, gameType |-> gameType,
                   before |-> matchmakingQueue]
  /\ UNCHANGED << sockets, roomVars, inflight, timers, tickTimer, dbVars, obsVars >>

\* socket.on('leaveQueue')
LeaveQueue(s) ==
  /\ sockets[s].connected
  /\ requireSocketAuth(s)
  /\ matchmakingQueue' = leaveQueue(s)
  /\ lastTick' = NoTick
  /\ lastEvent' = [op |-> "leaveQueue", by |-> s, before |-> matchmakingQueue]
  /\ UNCHANGED << connVars, queueKeys, roomVars, inflight, timers, tickTimer, dbVars,
                  obsVars >>

\* ------------------------------------------------------------------------
\* Matchmaking tick
\* ------------------------------------------------------------------------
FallbackMsOneTickLate(entry) ==
  IF entry.botFallbackMs = NoValue
  THEN MATCHMAKING_BOT_FALLBACK_MS + MATCHMAKING_TICK_MS
  ELSE entry.botFallbackMs

FallbackMs(entry) ==
  IF entry.botFallbackMs = NoValue THEN MATCHMAKING_BOT_FALLBACK_MS
  ELSE entry.botFallbackMs

WaitMs(entry) == Now - entry.joinedAt

\* the test of queue.findIndex at index i of the scan
IsOpponent(queue, i, q, j) ==
  LET entry == queue[i]
      range == getEloRangeForWaitTime(WaitMs(entry))
  IN /\ j # i
     /\ q.userId # entry.userId
     /\ (range = Infinity \/ Abs(q.elo - entry.elo) <= range)

\* only the opponent is spliced out, the scanning entry stays queued
RemovePairOpponentOnly(queue, i, opponentIdx) == Splice(queue, opponentIdx)

\* the two splices of a human match at index i with the opponent at opponentIdx
RemovePair(queue, i, opponentIdx) ==
  LET entry == queue[i]
      q1 == Splice(queue, opponentIdx)
      entryIdx == FindIndex({j \in 1..Len(q1) : q1[j].socketId = entry.socketId})
  IN IF entryIdx # 0 THEN Splice(q1, entryIdx) ELSE q1

\* the inner for loop over one category queue, from index i on; made lists the
\* rooms to create in order: <<"bot", entry>> or <<"ranked", opponent, entry>>
RECURSIVE ScanQueue(_, _, _)
ScanQueue(queue, i, made) ==
  IF i > Len(queue) THEN [queue |-> queue, made |-> made, matched |-> FALSE]
  ELSE LET entry == queue[i]
           waitMs == WaitMs(entry)
           opponentIdx ==
             FindIndex({j \in 1..Len(queue) : IsOpponent(queue, i, queue[j], j)})
       IN IF waitMs >= FallbackMs(entry)
          THEN ScanQueue(Splice(queue, i), i, Append(made, << "bot", entry >>))
          ELSE IF opponentIdx # 0
               THEN [queue |-> RemovePair(queue, i, opponentIdx),
                     made |-> Append(made, << "ranked", queue[opponentIdx], entry >>),
                     matched |-> TRUE]
               ELSE ScanQueue(queue, i + 1, made)

\* the outer for loop over the Map entries, from key index k on; a human match
\* returns from runMatchmakingTick
RECURSIVE ScanCategories(_, _, _)
ScanCategories(queues, k, made) ==
  IF k > Len(queueKeys) THEN [queues |-> queues, made |-> made]
  ELSE LET gameType == queueKeys[k]
           queue == queues[gameType]
           res == ScanQueue(queue, 1, << >>)
           tagged == [n \in 1..Len(res.made) |-> << gameType >> \o res.made[n]]
           after == [queues EXCEPT ![gameType] = res.queue]
       IN IF Len(queue) = 0 THEN ScanCategories(queues, k + 1, made)
          ELSE IF res.matched THEN [queues |-> after, made |-> made \o tagged]
          ELSE ScanCategories(after, k + 1, made \o tagged)

runMatchmakingTick == ScanCategories(matchmakingQueue, 1, << >>)

\* the room of the n-th creation of a tick, given its uuid and its join code
RoomOf(m, roomId, roomCode) ==
  IF m[2] = "bot" THEN createBotRoom(roomId, roomCode, m[1], m[3])
  ELSE createRankedRoom(roomId, roomCode, m[1], m[3], m[4])

\* the call of onBotMatchCb / onHumanMatchCb with the room and the socket ids of
\* the entries it was made from
HookOf(m, roomId) ==
  IF m[2] = "bot"
  THEN [op |-> "onBotMatch", roomId |-> roomId, players |-> << m[3].socketId >>]
  ELSE [op |-> "onHumanMatch", roomId |-> roomId,
        players |-> << m[3].socketId, m[4].socketId >>]

Tick ==
  /\ tickTimer = 0
  /\ LET res == runMatchmakingTick
         n == Len(res.made)
         ids == uuidv4(n)
         codes == generateRoomCode(n)
     IN   /\ LET rooms == [k \in 1..n |-> RoomOf(res.made[k], ids[k], codes[k])]
             IN /\ matchmakingQueue' = res.queues
                /\ activeRooms' =
                     [r \in DOMAIN activeRooms \cup Range(ids) |->
                        IF r \in DOMAIN activeRooms THEN activeRooms[r]
                        ELSE rooms[CHOOSE k \in 1..n : ids[k] = r]]
                /\ roomCodeMap' =
                     [c \in DOMAIN roomCodeMap \cup Range(codes) |->
                        IF c \in DOMAIN roomCodeMap THEN roomCodeMap[c]
                        ELSE ids[CHOOSE k \in 1..n : codes[k] = c]]
                /\ inflight' = inflight \cup {HookOf(res.made[k], ids[k]) : k \in 1..n}
                /\ lastTick' = [ran |-> TRUE, before |-> matchmakingQueue,
                                keys |-> queueKeys, created |-> rooms]
  /\ tickTimer' = MATCHMAKING_TICK_MS
  /\ lastEvent' = NoEvent
  /\ UNCHANGED << connVars, queueKeys, timers, dbVars, obsVars >>

\* ------------------------------------------------------------------------
\* Passage of time
\* ------------------------------------------------------------------------
Advance(d) ==
  /\ matchmakingQueue' =
       [g \in GameTypes |->
          [k \in 1..Len(matchmakingQueue[g]) |->
             [matchmakingQueue[g][k] EXCEPT !.joinedAt = Clip(@ - d)]]]
  /\ tickTimer' = Max(0, tickTimer - d)
  /\ timers' = {[t EXCEPT !.dueIn = Max(0, @ - d)] : t \in timers}
  /\ socketRateLimits' =
       [s \in DOMAIN socketRateLimits |->
          [socketRateLimits[s] EXCEPT !.resetAt = Max(-1, @ - d)]]
  /\ lastTick' = NoTick
  /\ lastEvent' = NoEvent
  /\ UNCHANGED << sockets, queueKeys, roomVars, inflight, dbVars, obsVars >>

\* ------------------------------------------------------------------------
\* Room manager (src/server/services/matchmaking.ts)
\* ------------------------------------------------------------------------
createRoom(roomId, roomCode, gameType, player, mode) ==
  [roomId |-> roomId, roomCode |-> roomCode, gameType |-> gameType,
   player1 |-> Player(player), player2 |-> NoPlayer,
   pairs |-> << >>, isActive |-> FALSE, startedAt |-> NoValue, mode |-> mode]

\* A code as a client types it: the code it spells (0: no letter or digit at
\* all) and the case of its letters. generateRoomCode draws upper-case letters
\* and digits, so the keys of roomCodeMap are the codes spelled in upper case.
TypedCodes == {[code |-> c, letters |-> l] : c \in 0..MaxRooms, l \in {"upper", "lower"}}

\* the text is looked up as it was typed
toUpperCaseSkipped(text) == text

\* String.prototype.toUpperCase
toUpperCase(text) == [text EXCEPT !.letters = "upper"]

\* the key of roomCodeMap a text is equal to, 0 when it equals none
CodeKey(text) == IF text.letters = "upper" THEN text.code ELSE 0

\* the seat is given to the caller whether or not it is taken
joinRoomTakingSeat(roomCode, player) ==
  IF CodeKey(toUpperCase(roomCode)) \notin DOMAIN roomCodeMap THEN NoRoom
  ELSE LET room == activeRooms[roomCodeMap[CodeKey(toUpperCase(roomCode))]]
       IN IF room.isActive \/ room.mode = "bot_fallback" THEN NoRoom
          ELSE [room EXCEPT !.player2 = Player(player)]

\* joinRoom: the room the code leads to with player2 filled, or NoRoom for null
joinRoom(roomCode, player) ==
  IF CodeKey(toUpperCase(roomCode)) \notin DOMAIN roomCodeMap THEN NoRoom
  ELSE LET roomId == roomCodeMap[CodeKey(toUpperCase(roomCode))]
       IN IF roomId \notin DOMAIN activeRooms THEN NoRoom
          ELSE LET room == activeRooms[roomId]
               IN IF room.player2 # NoPlayer \/ room.isActive THEN NoRoom
                  ELSE IF room.mode = "bot_fallback" THEN NoRoom
                  ELSE [room EXCEPT !.player2 = Player(player)]

\* the content generatePairs / generatePairsWithDistractors resolve to
Content == [i \in 1..NumPairs |-> i]

startGame(rooms, roomId, pairs) ==
  IF roomId \notin DOMAIN rooms THEN rooms
  ELSE [rooms EXCEPT ![roomId] =
          [@ EXCEPT !.pairs = pairs, !.isActive = TRUE, !.startedAt = Started]]

endGameAndDelete(rooms, roomId) == Without(rooms, roomId)

endGame(rooms, roomId) ==
  IF roomId \notin DOMAIN rooms THEN rooms
  ELSE [rooms EXCEPT ![roomId] = [@ EXCEPT !.isActive = FALSE]]

\* the player slot a gateway handler takes for the sender: "player1" or "player2"
CurrentSlot(room, s) ==
  IF room.player1.userId = sockets[s].userId THEN "player1" ELSE "player2"

SlotPlayer(room, slot) == IF slot = "player1" THEN room.player1 ELSE room.player2

SetScore(room, slot, score) ==
  IF slot = "player1" THEN [room EXCEPT !.player1.score = score]
  ELSE [room EXCEPT !.player2.score = score]

\* ------------------------------------------------------------------------
\* Gateway: friend rooms (src/server/socket/handlers.ts)
\* ------------------------------------------------------------------------
Me(s, gameType) ==
  [socketId |-> s, userId |-> sockets[s].userId, elo |-> sockets[s].elo[gameType]]

\* socket.on('createRoom')
CreateRoom(s, gameType) ==
  /\ sockets[s].connected
  /\ requireSocketAuth(s)
  /\ Cardinality(NamedRoomIds) + TotalQueued < MaxRooms
  /\ LET roomId == uuidv4(1)[1]
         roomCode == generateRoomCode(1)[1]
     IN /\ activeRooms' =
             With(activeRooms, roomId, createRoom(roomId, roomCode, gameType,
                                                  Me(s, gameType), "friend"))
        /\ roomCodeMap' = With(roomCodeMap, roomCode, roomId)
  /\ lastScore' = NoScore
  /\ lastEvent' = NoEvent
  /\ UNCHANGED << sockets, queueVars, inflight, timers, dbVars, outbox, endLog >>

\* an event emitted to one socket, or to the channel of a room (to = "room")
Emit(event, to, roomId) == [event |-> event, to |-> to, roomId |-> roomId]

\* socket.on('joinRoom'), up to the await of the content; the typed code has
\* its characters other than letters and digits removed first
JoinRoom(s, roomCode) ==
  /\ sockets[s].connected
  /\ requireSocketAuth(s)
  /\ LET room == IF roomCode.code = 0 THEN NoRoom ELSE joinRoom(roomCode, Me(s, "race"))
     IN /\ IF room = NoRoom
           THEN /\ outbox' = outbox \cup {Emit("error", s, 0)}
                /\ UNCHANGED << activeRooms, inflight >>
           ELSE /\ activeRooms' = [activeRooms EXCEPT ![room.roomId] = room]
                /\ outbox' = outbox \cup {Emit("playerJoined", "room", room.roomId)}
                /\ inflight' = inflight \cup
                     {[op |-> "joinRoom", roomId |-> room.roomId,
                       players |-> << room.player1.socketId, s >>]}
        /\ lastEvent' = [op |-> "joinRoom", by |-> s, roomCode |-> roomCode,
                         joined |-> IF room = NoRoom THEN 0 ELSE room.roomId,
                         before |-> activeRooms]
  /\ lastScore' = NoScore
  /\ UNCHANGED << sockets, queueVars, roomCodeMap, timers, dbVars, endLog >>

\* generatePairs, and generatePairsWithDistractors with its second attempt
\* through generatePairs, by what the content service did during the call:
\*   "pairs"        its text holds an array with valid pairs,
\*   "unreachable"  fetch threw or the status was not ok,
\*   "noJson"       no JSON in its text, or JSON.parse threw,
\*   "emptyArray"   the array is empty ('Invalid pairs response'),
\*   "noValidPair"  a non-empty array none of whose items has source and target.
\* The catch returns getFallbackPairs (static pairs NumPairs + 1 ...); the
\* filter of valid pairs is returned as it is, the function never throws.
generatePairs(reply) ==
  IF reply = "pairs" THEN Content
  ELSE IF reply = "noValidPair" THEN << >>
  ELSE [i \in 1..NumPairs |-> NumPairs + i]

\* onHumanMatch, onBotMatch and socket.on('joinRoom') after the await
ContentGenerated(c, reply) ==
  /\ c \in inflight
  /\ c.op \in {"onHumanMatch", "onBotMatch", "joinRoom"}
  /\ activeRooms' = startGame(activeRooms, c.roomId, generatePairs(reply))
  /\ inflight' = inflight \ {c}
  /\ outbox' = outbox \cup
       (CASE c.op = "onHumanMatch" -> {Emit("matchFound", "room", c.roomId)}
          [] c.op = "joinRoom" -> {Emit("gameStart", "room", c.roomId)}
          [] OTHER -> {Emit("botMatch", to, c.roomId) :
                         to \in {x \in Range(c.players) : sockets[x].connected}})
  /\ lastScore' = NoScore
  /\ lastEvent' = [op |-> "startGame", hook |-> c.op, roomId |-> c.roomId,
                   reply |-> reply, before |-> activeRooms]
  /\ UNCHANGED << connVars, queueVars, roomCodeMap, timers, dbVars, endLog >>

\* the same with a content service that answers with valid pairs
ContentResolved(c) == ContentGenerated(c, "pairs")

\* checkRate of a handler that returns: the limiter counted the event and
\* refused it, the sender gets an error event
RateLimited(s, maxPerWindow) ==
  /\ sockets[s].connected
  /\ requireSocketAuth(s)
  /\ LET res == checkSocketRateLimit(s, maxPerWindow)
     IN /\ ~res.allowed
        /\ res.limits[s].count <= MaxEvents
        /\ socketRateLimits' = res.limits
  /\ outbox' = outbox \cup {Emit("error", s, 0)}
  /\ lastTick' = NoTick
  /\ lastScore' = NoScore
  /\ lastEvent' = [op |-> "rateLimited", by |-> s, maxPerWindow |-> maxPerWindow]
  /\ UNCHANGED << sockets, matchmakingQueue, queueKeys, tickTimer, roomVars, inflight,
                  timers, dbVars, endLog >>

\* ------------------------------------------------------------------------
\* Gateway: authentication
\* ------------------------------------------------------------------------
\* socket.on('authenticate'), up to the await of verifySocketToken; a token
\* is "missing" (no string), "invalid" (no user for it, or expired) or "valid"
Authenticate(s, token) ==
  /\ sockets[s].connected
  /\ IF token = "missing"
     THEN /\ outbox' = outbox \cup {Emit("error", s, 0)}
          /\ UNCHANGED inflight
     ELSE /\ inflight' = inflight \cup
               {[op |-> "authenticate", roomId |-> 0, by |-> s, token |-> token]}
          /\ UNCHANGED outbox
  /\ lastTick' = NoTick
  /\ lastScore' = NoScore
  /\ lastEvent' = [op |-> "authenticate", by |-> s, token |-> token,
                   outcome |-> IF token = "missing" THEN "rejected" ELSE "pending"]
  /\ UNCHANGED << connVars, matchmakingQueue, queueKeys, tickTimer, roomVars, timers,
                  dbVars, endLog >>

\* socket.on('authenticate') after the awaits: verifySocketToken returned null
\* or the user, and for a user the ratings and the name were fetched
TokenVerified(c) ==
  /\ c \in inflight
  /\ c.op = "authenticate"
  /\ inflight' = inflight \ {c}
  /\ IF c.token = "valid"
     THEN /\ sockets' = [sockets EXCEPT ![c.by] =
                           [@ EXCEPT !.isAuthenticated = TRUE,
                                     !.userId = UserOfSocket[c.by],
                                     !.elo = StoredElo[UserOfSocket[c.by]]]]
          /\ outbox' = outbox \cup {Emit("authenticated", c.by, 0)}
     ELSE /\ UNCHANGED sockets
          /\ outbox' = outbox \cup {Emit("error", c.by, 0)}
  /\ lastTick' = NoTick
  /\ lastScore' = NoScore
  /\ lastEvent' = [op |-> "authenticate", by |-> c.by, token |-> c.token,
                   outcome |-> IF c.token = "valid" THEN "accepted" ELSE "rejected"]
  /\ UNCHANGED << socketRateLimits, matchmakingQueue, queueKeys, tickTimer, roomVars,
                  timers, dbVars, endLog >>

\* requireSocketAuth of a handler that returns: the sender of the event is not
\* authenticated and gets an error event
NotAuthenticated(s, event) ==
  /\ sockets[s].connected
  /\ ~requireSocketAuth(s)
  /\ outbox' = outbox \cup {Emit("error", s, 0)}
  /\ lastTick' = NoTick
  /\ lastScore' = NoScore
  /\ lastEvent' = [op |-> "notAuthenticated", by |-> s, event |-> event]
  /\ UNCHANGED << connVars, matchmakingQueue, queueKeys, tickTimer, roomVars, inflight,
                  timers, dbVars, endLog >>

\* ------------------------------------------------------------------------
\* Gateway: disconnect
\* ------------------------------------------------------------------------
\* the ids removePlayerFromRooms returns: the rooms that seat the connection
AffectedRooms(socketId) ==
  {r \in DOMAIN activeRooms :
     activeRooms[r].player1.socketId = socketId \/ activeRooms[r].player2.socketId = socketId}

\* only the rooms the connection hosts are marked
removePlayerFromRoomsHosted(socketId) ==
  [r \in DOMAIN activeRooms |->
     IF activeRooms[r].player1.socketId = socketId /\ activeRooms[r].isActive
     THEN [activeRooms[r] EXCEPT !.isActive = FALSE]
     ELSE activeRooms[r]]

\* removePlayerFromRooms: the rooms after it
removePlayerFromRooms(socketId) ==
  [r \in DOMAIN activeRooms |->
     IF r \in AffectedRooms(socketId) /\ activeRooms[r].isActive
     THEN [activeRooms[r] EXCEPT !.isActive = FALSE]
     ELSE activeRooms[r]]

\* socket.on('disconnect')
Disconnect(s) ==
  /\ sockets[s].connected
  /\ sockets' = [sockets EXCEPT ![s].connected = FALSE]
  /\ matchmakingQueue' = leaveQueue(s)
  /\ socketRateLimits' = clearSocketRateLimit(s)
  /\ activeRooms' = removePlayerFromRooms(s)
  /\ outbox' = outbox \cup {Emit("opponentDisconnected", "room", r) : r \in AffectedRooms(s)}
  /\ lastTick' = NoTick
  /\ lastScore' = NoScore
  /\ lastEvent' = [op |-> "disconnect", by |-> s, before |-> activeRooms,
                   queued |-> matchmakingQueue, limits |-> socketRateLimits]
  /\ UNCHANGED << queueKeys, tickTimer, roomCodeMap, inflight, timers, dbVars, endLog >>

\* ------------------------------------------------------------------------
\* Gateway: scores
\* ------------------------------------------------------------------------
NaN == [nan |-> TRUE]

Num(n) == [nan |-> FALSE, v |-> n]

\* the values a client puts in data.score: numbers, undefined, a text that is
\* no number, null
Reported ==
  {[type |-> "number", v |-> n] : n \in (-1)..(MaxScore + 2)}
    \cup {[type |-> "undefined"], [type |-> "string"], [type |-> "null"]}

\* Math.floor(Number(x))
FloorNumber(x) ==
  IF x.type = "number" THEN Num(x.v)
  ELSE IF x.type = "null" THEN Num(0)
  ELSE NaN

\* the score updateScore leaves for a current score and a reported newScore
ClampedScore(score, newScore) ==
  IF newScore > score + 1 THEN score + 1 ELSE newScore

\* socket.on('updateScore')
UpdateScore(s, roomId, reported) ==
  /\ sockets[s].connected
  /\ requireSocketAuth(s)
  /\ roomId \in DOMAIN activeRooms
  /\ LET room == activeRooms[roomId]
         slot == CurrentSlot(room, s)
         currentPlayer == SlotPlayer(room, slot)
         newScore == FloorNumber(reported)
     IN /\ currentPlayer # NoPlayer
        /\ lastScore' = [ran |-> TRUE, roomId |-> roomId, by |-> s,
                         reported |-> reported, before |-> room]
        /\ IF newScore.nan \/ newScore.v < 0
           THEN UNCHANGED activeRooms
           ELSE /\ ClampedScore(currentPlayer.score, newScore.v) <= MaxScore
                /\ activeRooms' =
                     [activeRooms EXCEPT ![roomId] =
                        SetScore(room, slot, ClampedScore(currentPlayer.score, newScore.v))]
  /\ lastEvent' = NoEvent
  /\ UNCHANGED << sockets, queueVars, roomCodeMap, inflight, timers, dbVars, outbox,
                  endLog >>

\* socket.on('submitAnswer'), up to the await of validateTranslation
SubmitAnswer(s, roomId, questionIndex) ==
  /\ sockets[s].connected
  /\ requireSocketAuth(s)
  /\ roomId \in DOMAIN activeRooms
  /\ ~(questionIndex < 0 \/ questionIndex >= Len(activeRooms[roomId].pairs))
  /\ Cardinality({c \in inflight : c.op = "submitAnswer"}) < MaxCalls
  /\ inflight' = inflight \cup {[op |-> "submitAnswer", roomId |-> roomId, by |-> s,
                                  questionIndex |-> questionIndex]}
  /\ lastScore' = NoScore
  /\ lastEvent' = NoEvent
  /\ UNCHANGED << sockets, queueVars, roomVars, timers, dbVars, outbox, endLog >>

\* socket.on('submitAnswer') after the await: the verdict of validateTranslation
AnswerJudged(c, correct) ==
  /\ c \in inflight
  /\ c.op = "submitAnswer"
  /\ inflight' = inflight \ {c}
  /\ IF c.roomId \in DOMAIN activeRooms
     THEN LET room == activeRooms[c.roomId]
              slot == CurrentSlot(room, c.by)
              currentPlayer == SlotPlayer(room, slot)
          IN IF currentPlayer # NoPlayer /\ correct
             THEN /\ currentPlayer.score < MaxScore
                  /\ activeRooms' =
                       [activeRooms EXCEPT ![c.roomId] =
                          SetScore(room, slot, currentPlayer.score + 1)]
             ELSE UNCHANGED activeRooms
     ELSE UNCHANGED activeRooms
  /\ outbox' = outbox \cup
       {[event |-> "answerResult", to |-> c.by, roomId |-> c.roomId,
         questionIndex |-> c.questionIndex, correct |-> correct,
         newScore |-> IF c.roomId \in DOMAIN activeRooms'
                      THEN SlotPlayer(activeRooms'[c.roomId],
                                      CurrentSlot(activeRooms'[c.roomId], c.by)).score
                      ELSE 0],
        Emit("scoreUpdate", "room", c.roomId)}
  /\ lastScore' = NoScore
  /\ lastEvent' = [op |-> "answerJudged", by |-> c.by, roomId |-> c.roomId,
                   correct |-> correct, before |-> activeRooms]
  /\ UNCHANGED << connVars, queueVars, roomCodeMap, timers, dbVars, endLog >>

\* ------------------------------------------------------------------------
\* Gateway: end of a session (socket.on('endGame') and saveGameSession)
\* ------------------------------------------------------------------------
\* p2.userId.startsWith('bot_')
IsBotId(userId) == userId \in {BotId(r) : r \in RoomIds}

\* the params object endGame hands to saveGameSession
SessionParams(room) ==
  LET p2 == room.player2
      isBotMatch == room.mode = "bot_fallback" \/ IsBotId(p2.userId)
  IN [gameType |-> room.gameType, mode |-> room.mode,
      player1Id |-> room.player1.userId,
      player2Id |-> IF isBotMatch THEN Null ELSE p2.userId,
      player1Score |-> room.player1.score, player2Score |-> p2.score]

\* winnerId of saveGameSession
WinnerId(params) ==
  IF params.player1Score > params.player2Score THEN params.player1Id
  ELSE IF params.player2Score > params.player1Score THEN params.player2Id
  ELSE Null

\* the rating update runs whenever there is a second player id, in any mode
ShouldRateAnyMode(params) == params.player2Id # Null

\* the condition of saveGameSession on updateEloAfterGame
ShouldRate(params) == params.mode = "ranked" /\ params.player2Id # Null

PendingCalls == {c \in inflight : c.op = "endGame"}

Replace(c, d) == (inflight \ {c}) \cup {d}

\* socket.on('endGame'), up to the await of the insert of saveGameSession
EndGame(s, roomId) ==
  /\ sockets[s].connected
  /\ requireSocketAuth(s)
  /\ roomId \in DOMAIN activeRooms
  /\ activeRooms[roomId].player2 # NoPlayer
  /\ ~(activeRooms[roomId].player1.userId # sockets[s].userId
         /\ activeRooms[roomId].player2.userId # sockets[s].userId)
  /\ Cardinality(PendingCalls) + Cardinality(timers) < MaxCalls
  /\ LET room == activeRooms[roomId]
         call == Least((1..MaxCalls) \ ({c.call : c \in PendingCalls}
                                          \cup {t.call : t \in timers}))
     IN inflight' = inflight \cup
          {[op |-> "endGame", roomId |-> roomId, call |-> call, stage |-> "insert",
            params |-> SessionParams(room), p2UserId |-> room.player2.userId,
            player1Socket |-> room.player1.socketId,
            player2Socket |-> room.player2.socketId]}
  /\ activeRooms' = endGame(activeRooms, roomId)
  /\ lastScore' = NoScore
  /\ lastEvent' = NoEvent
  /\ UNCHANGED << sockets, queueVars, roomCodeMap, timers, dbVars, outbox, endLog >>

\* the rest of the handler once saveGameSession has returned or thrown:
\* the two gameResult events unless it threw, then the purge timer. winnerId
\* is computed after the await from the scores endedRoom holds then (the
\* room object of the Map; once the room is deleted, the scores handed to
\* saveGameSession stand for them).
Finished(c, threw, eloResult) ==
  LET Connected(socketId) == socketId \in SocketIds /\ sockets[socketId].connected
      player1Score == IF c.roomId \in DOMAIN activeRooms
                      THEN activeRooms[c.roomId].player1.score
                      ELSE c.params.player1Score
      p2Score == IF c.roomId \in DOMAIN activeRooms
                 THEN activeRooms[c.roomId].player2.score
                 ELSE c.params.player2Score
      winnerId == IF player1Score > p2Score THEN c.params.player1Id
                  ELSE IF p2Score > player1Score THEN c.p2UserId
                  ELSE Null
      results ==
        {[event |-> "gameResult", to |-> to, roomId |-> c.roomId, call |-> c.call,
          winner |-> winnerId,
          eloChange |-> IF to = c.player1Socket THEN eloResult[1] ELSE eloResult[2]] :
           to \in {x \in {c.player1Socket, c.player2Socket} : Connected(x)}}
  IN /\ inflight' = inflight \ {c}
     /\ outbox' = IF threw THEN outbox ELSE outbox \cup results
     /\ timers' = timers \cup
          {[roomId |-> c.roomId, call |-> c.call, dueIn |-> ROOM_PURGE_DELAY_MS]}
     /\ endLog' = endLog \cup
          {[roomId |-> c.roomId, call |-> c.call, threw |-> threw,
            rated |-> (c.stage = "upsert2"),
            players |-> {c.player1Socket, c.player2Socket}]}

\* saveGameSession: the insert into game_sessions returned a row
SessionInserted(c) ==
  /\ c \in PendingCalls
  /\ c.stage = "insert"
  /\ Len(game_sessions) < MaxSessions
  /\ game_sessions' = Append(game_sessions,
       [game_type |-> c.params.gameType, mode |-> c.params.mode,
        player1_id |-> c.params.player1Id, player2_id |-> c.params.player2Id,
        player1_score |-> c.params.player1Score,
        player2_score |-> c.params.player2Score,
        winner_id |-> WinnerId(c.params), roomId |-> c.roomId, call |-> c.call])
  /\ inflight' = Replace(c, [c EXCEPT !.stage = "stats"])
  /\ lastScore' = NoScore
  /\ lastEvent' = NoEvent
  /\ UNCHANGED << connVars, queueVars, roomVars, timers, elo_ratings, user_stats,
                  outbox, endLog >>

\* saveGameSession: the insert returned an error, which is thrown to the
\* catch of the handler
SessionInsertFailed(c) ==
  /\ c \in PendingCalls
  /\ c.stage = "insert"
  /\ Finished(c, TRUE, << 0, 0 >>)
  /\ lastScore' = NoScore
  /\ lastEvent' = NoEvent
  /\ UNCHANGED << connVars, queueVars, roomVars, dbVars >>

\* updateUserStats: the row of (userId, gameType) after one more game
updateUserStats(stats, userId, gameType, score, won) ==
  LET existing == stats[userId][gameType]
      row == IF existing.exists
             THEN [exists |-> TRUE,
                   games_played |-> existing.games_played + 1,
                   wins |-> existing.wins + (IF won THEN 1 ELSE 0),
                   losses |-> existing.losses + (IF won THEN 0 ELSE 1),
                   best_score |-> Max(existing.best_score, score),
                   current_streak |-> IF won THEN existing.current_streak + 1 ELSE 0]
             ELSE [exists |-> TRUE, games_played |-> 1,
                   wins |-> IF won THEN 1 ELSE 0, losses |-> IF won THEN 0 ELSE 1,
                   best_score |-> score, current_streak |-> IF won THEN 1 ELSE 0]
  IN [stats EXCEPT ![userId][gameType] = row]

\* saveGameSession: updateUserStats for both players and the badge checks are
\* done; a ranked game of two players goes on to updateEloAfterGame, any other
\* returns to the handler
StatsUpdated(c) ==
  /\ c \in PendingCalls
  /\ c.stage = "stats"
  /\ LET p == c.params
         winnerId == WinnerId(p)
         s1 == updateUserStats(user_stats, p.player1Id, p.gameType, p.player1Score,
                               winnerId = p.player1Id)
     IN user_stats' =
          IF p.player2Id # Null
          THEN updateUserStats(s1, p.player2Id, p.gameType, p.player2Score,
                               winnerId = p.player2Id)
          ELSE s1
  /\ IF ShouldRate(c.params)
     THEN /\ inflight' = Replace(c, [c EXCEPT !.stage = "ratings"])
          /\ UNCHANGED << timers, outbox, endLog >>
     ELSE Finished(c, FALSE, << 0, 0 >>)
  /\ lastScore' = NoScore
  /\ lastEvent' = NoEvent
  /\ UNCHANGED << connVars, queueVars, roomVars, game_sessions, elo_ratings >>

getSeededStartingEloAnyRow(ratings, userId, gameType) ==
  LET otherRatings == {ratings[userId][g] : g \in {x \in DOMAIN ratings[userId] :
                          x # gameType /\ ratings[userId][x].exists}}
      highest == IF otherRatings = {} THEN 0
                 ELSE CHOOSE h \in {r.elo : r \in otherRatings} :
                        \A r \in otherRatings : r.elo <= h
      rounded == DEFAULT_ELO + ((4 * (highest - DEFAULT_ELO) + 5) \div 10)
  IN IF highest <= DEFAULT_ELO THEN DEFAULT_ELO
     ELSE IF rounded > ELO_SEED_CAP_MAX THEN ELO_SEED_CAP_MAX
     ELSE Max(DEFAULT_ELO, rounded)

\* getSeededStartingElo: Math.round(DEFAULT_ELO + (highest - DEFAULT_ELO) * 0.4),
\* clamped to [DEFAULT_ELO, ELO_SEED_CAP_MAX]; the product is a multiple of 0.2,
\* never a half, so rounding half up is exact on integers
getSeededStartingElo(ratings, userId, gameType) ==
  LET otherRatings == {ratings[userId][g] : g \in {x \in DOMAIN ratings[userId] :
                          x # gameType /\ ratings[userId][x].exists}}
      established == {r \in otherRatings : r.games_played >= ELO_GAMES_ESTABLISHED}
      highestFromEstablished ==
        IF established = {} THEN 0
        ELSE CHOOSE h \in {r.elo : r \in established} :
               \A r \in established : r.elo <= h
      rounded == DEFAULT_ELO + ((4 * (highestFromEstablished - DEFAULT_ELO) + 5) \div 10)
  IN IF otherRatings = {} THEN DEFAULT_ELO
     ELSE IF highestFromEstablished <= DEFAULT_ELO THEN DEFAULT_ELO
     ELSE IF rounded > ELO_SEED_CAP_MAX THEN ELO_SEED_CAP_MAX
     ELSE Max(DEFAULT_ELO, rounded)

\* ensureEloRow: the table with a row for (userId, gameType)
ensureEloRow(ratings, userId, gameType) ==
  IF ratings[userId][gameType].exists THEN ratings
  ELSE LET seededElo == getSeededStartingElo(ratings, userId, gameType)
       IN [ratings EXCEPT ![userId][gameType] =
             [exists |-> TRUE, elo |-> seededElo, peak_elo |-> seededElo,
              games_played |-> 0]]

\* updateEloAfterGame up to its first upsert: both rows ensured and read, the
\* new ratings computed from what was read
RatingsRead(c) ==
  /\ c \in PendingCalls
  /\ c.stage = "ratings"
  /\ LET p == c.params
         ensured == ensureEloRow(ensureEloRow(elo_ratings, p.player1Id, p.gameType),
                                 p.player2Id, p.gameType)
         p1Rating == ensured[p.player1Id][p.gameType]
         p2Rating == ensured[p.player2Id][p.gameType]
         winnerId == WinnerId(p)
         p1Result == IF winnerId = Null THEN 1 ELSE IF winnerId = p.player1Id THEN 2 ELSE 0
         p2Result == 2 - p1Result
         p1NewElo == calculateNewElo(p1Rating.elo, p2Rating.elo, p1Result,
                                     getKFactor(p1Rating.games_played))
         p2NewElo == calculateNewElo(p2Rating.elo, p1Rating.elo, p2Result,
                                     getKFactor(p2Rating.games_played))
     IN /\ elo_ratings' = ensured
        /\ inflight' = Replace(c,
             [c EXCEPT !.stage = "upsert1"] @@
             [upsert1 |-> [exists |-> TRUE, elo |-> p1NewElo,
                           peak_elo |-> Max(p1NewElo, p1Rating.peak_elo),
                           games_played |-> p1Rating.games_played + 1],
              upsert2 |-> [exists |-> TRUE, elo |-> p2NewElo,
                           peak_elo |-> Max(p2NewElo, p2Rating.peak_elo),
                           games_played |-> p2Rating.games_played + 1],
              eloResult |-> << p1NewElo - p1Rating.elo, p2NewElo - p2Rating.elo >>])
  /\ lastScore' = NoScore
  /\ lastEvent' = NoEvent
  /\ UNCHANGED << connVars, queueVars, roomVars, timers, game_sessions, user_stats,
                  outbox, endLog >>

\* updateEloAfterGame: the upsert of player 1's row
Player1Upserted(c) ==
  /\ c \in PendingCalls
  /\ c.stage = "upsert1"
  /\ elo_ratings' = [elo_ratings EXCEPT ![c.params.player1Id][c.params.gameType] = c.upsert1]
  /\ inflight' = Replace(c, [c EXCEPT !.stage = "upsert2"])
  /\ lastScore' = NoScore
  /\ lastEvent' = NoEvent
  /\ UNCHANGED << connVars, queueVars, roomVars, timers, game_sessions, user_stats,
                  outbox, endLog >>

\* updateEloAfterGame: the upsert of player 2's row; the call returns to the handler
Player2Upserted(c) ==
  /\ c \in PendingCalls
  /\ c.stage = "upsert2"
  /\ elo_ratings' = [elo_ratings EXCEPT ![c.params.player2Id][c.params.gameType] = c.upsert2]
  /\ Finished(c, FALSE, c.eloResult)
  /\ lastScore' = NoScore
  /\ lastEvent' = NoEvent
  /\ UNCHANGED << connVars, queueVars, roomVars, game_sessions, user_stats >>

\* ------------------------------------------------------------------------
\* Purge of a room (the setTimeout callback of socket.on('endGame'))
\* ------------------------------------------------------------------------
deleteRoom(roomId) ==
  IF roomId \in DOMAIN activeRooms
  THEN /\ roomCodeMap' = Without(roomCodeMap, activeRooms[roomId].roomCode)
       /\ activeRooms' = Without(activeRooms, roomId)
  ELSE UNCHANGED << activeRooms, roomCodeMap >>

\* the timer of a call fires, no earlier than it is due. Once no pending call
\* and no timer names the room any more, what was observed about it is dropped.
TimerFired(t) ==
  /\ t \in timers
  /\ t.dueIn = 0
  /\ deleteRoom(t.roomId)
  /\ timers' = timers \ {t}
  /\ LET named == \E x \in (timers \ {t}) \cup inflight : x.roomId = t.roomId
     IN /\ outbox' = IF named THEN outbox ELSE {e \in outbox : e.roomId # t.roomId}
        /\ endLog' = IF named THEN endLog ELSE {e \in endLog : e.roomId # t.roomId}
        /\ game_sessions' =
             IF named THEN game_sessions
             ELSE [k \in 1..Len(game_sessions) |->
                     IF game_sessions[k].roomId = t.roomId
                     THEN [game_sessions[k] EXCEPT !.roomId = 0, !.call = 0]
                     ELSE game_sessions[k]]
  /\ lastScore' = NoScore
  /\ lastEvent' = NoEvent
  /\ UNCHANGED << connVars, queueVars, inflight, elo_ratings, user_stats >>

\* ------------------------------------------------------------------------
\* Specification
\* ------------------------------------------------------------------------
\* the server after startup, with the connections of three authenticated
\* clients: every queue and table of rooms is empty, the tick timer is armed
Init ==
  /\ sockets = [s \in SocketIds |->
                  [connected |-> TRUE, isAuthenticated |-> TRUE,
                   userId |-> UserOfSocket[s], elo |-> StoredElo[UserOfSocket[s]]]]
  /\ matchmakingQueue = [g \in GameTypes |-> << >>]
  /\ queueKeys = << >>
  /\ activeRooms = << >>
  /\ roomCodeMap = << >>
  /\ inflight = {}
  /\ timers = {}
  /\ tickTimer = MATCHMAKING_TICK_MS
  /\ game_sessions = << >>
  /\ elo_ratings = StoredRatings
  /\ user_stats = [u \in UserIds |-> [g \in GameTypes |-> NoRow]]
  /\ outbox = {}
  /\ endLog = {}
  /\ lastScore = NoScore
  /\ lastTick = NoTick
  /\ socketRateLimits = << >>
  /\ lastEvent = NoEvent

\* the categories each connection queues for
QueueChoices == {<< s, g >> \in SocketIds \X GameTypes : s # "s1" \/ g = "race"}

Next ==
  \/ \E c \in QueueChoices : JoinQueue(c[1], c[2]) /\ InBudget
  \/ \E s \in SocketIds : LeaveQueue(s)
  \/ Tick
  \/ \E d \in ClockSteps : Advance(d)

Spec == Init /\ [][Next]_vars

\* ------------------------------------------------------------------------
\* Specifications of the sessions in the rooms
\* ------------------------------------------------------------------------
\* The state a tick leaves, one clock step later: u3 queued for asteroid, after
\* 45 s u1 and u2 queued for race, and the tick 15 s later gave u3 a bot room
\* and paired u1 with u2; both hooks await their content.
GameInit ==
  LET u1 == [socketId |-> "s1", userId |-> "u1", elo |-> StoredElo["u1"]["race"]]
      u2 == [socketId |-> "s2", userId |-> "u2", elo |-> StoredElo["u2"]["race"]]
      u3 == [socketId |-> "s3", userId |-> "u3", elo |-> StoredElo["u3"]["asteroid"]]
  IN /\ sockets = [s \in SocketIds |->
                     [connected |-> TRUE, isAuthenticated |-> TRUE,
                      userId |-> UserOfSocket[s], elo |-> StoredElo[UserOfSocket[s]]]]
     /\ matchmakingQueue = [g \in GameTypes |-> << >>]
     /\ queueKeys = << "asteroid", "race" >>
     /\ activeRooms = << createBotRoom(1, 1, "asteroid", u3),
                         createRankedRoom(2, 2, "race", u2, u1) >>
     /\ roomCodeMap = << 1, 2 >>
     /\ inflight = {[op |-> "onBotMatch", roomId |-> 1, players |-> << "s3" >>],
                    [op |-> "onHumanMatch", roomId |-> 2, players |-> << "s2", "s1" >>]}
     /\ timers = {}
     /\ tickTimer = 0
     /\ game_sessions = << >>
     /\ elo_ratings = StoredRatings
     /\ user_stats = [u \in UserIds |-> [g \in GameTypes |-> NoRow]]
     /\ outbox = {}
     /\ endLog = {}
     /\ lastScore = NoScore
     /\ lastTick = NoTick
     /\ socketRateLimits = << >>
     /\ lastEvent = NoEvent

ScoreNext ==
  \/ \E c \in inflight : ContentResolved(c)
  \/ \E s \in SocketIds, r \in RoomIds, x \in Reported : UpdateScore(s, r, x) /\ InBudget

ScoreSpec == GameInit /\ [][ScoreNext]_vars

\* From the state of GameInit the contents arrive and every connection
\* submits answers to the first question of the ranked room, also connection
\* s3, which is no player of it; the validator judges each answer either way.
AnswerNext ==
  \/ \E c \in inflight : ContentResolved(c)
  \/ \E s \in SocketIds, questionIndex \in {0} :
       SubmitAnswer(s, 2, questionIndex) /\ InBudget
  \/ \E c \in inflight, correct \in BOOLEAN : AnswerJudged(c, correct)

AnswerSpec == GameInit /\ [][AnswerNext]_vars

\* The three sessions under way: after GameInit u3 opened a friend room for
\* race, u1 joined it, the players reported scores and the content of every
\* room arrived.
SessionInit ==
  LET Scored(room, score1, score2) ==
        [room EXCEPT !.player1.score = score1, !.player2.score = score2,
                     !.pairs = Content, !.isActive = TRUE, !.startedAt = Started]
      u1 == [socketId |-> "s1", userId |-> "u1", elo |-> StoredElo["u1"]["race"]]
      u2 == [socketId |-> "s2", userId |-> "u2", elo |-> StoredElo["u2"]["race"]]
      u3 == [socketId |-> "s3", userId |-> "u3", elo |-> StoredElo["u3"]["asteroid"]]
      host == [socketId |-> "s3", userId |-> "u3", elo |-> StoredElo["u3"]["race"]]
      friendRoom == [createRoom(3, 3, "race", host, "friend") EXCEPT !.player2 = Player(u1)]
  IN /\ sockets = [s \in SocketIds |->
                     [connected |-> TRUE, isAuthenticated |-> TRUE,
                      userId |-> UserOfSocket[s], elo |-> StoredElo[UserOfSocket[s]]]]
     /\ matchmakingQueue = [g \in GameTypes |-> << >>]
     /\ queueKeys = << "asteroid", "race" >>
     /\ activeRooms = << Scored(createBotRoom(1, 1, "asteroid", u3), 1, 0),
                         Scored(createRankedRoom(2, 2, "race", u2, u1), 0, 1),
                         Scored(friendRoom, 1, 0) >>
     /\ roomCodeMap = << 1, 2, 3 >>
     /\ inflight = {}
     /\ timers = {}
     /\ tickTimer = 0
     /\ game_sessions = << >>
     /\ elo_ratings = StoredRatings
     /\ user_stats = [u \in UserIds |-> [g \in GameTypes |-> NoRow]]
     /\ outbox = {}
     /\ endLog = {}
     /\ lastScore = NoScore
     /\ lastTick = NoTick
     /\ socketRateLimits = << >>
     /\ lastEvent = NoEvent

GraceSteps == {ROOM_PURGE_DELAY_MS \div 2}

SessionNext ==
  \/ \E s \in SocketIds, r \in RoomIds : EndGame(s, r) /\ InBudget
  \/ \E c \in inflight : SessionInserted(c)
  \/ \E c \in inflight : SessionInsertFailed(c)
  \/ \E c \in inflight : StatsUpdated(c)
  \/ \E c \in inflight : RatingsRead(c)
  \/ \E c \in inflight : Player1Upserted(c)
  \/ \E c \in inflight : Player2Upserted(c)
  \/ \E d \in GraceSteps : Advance(d)
  \/ \E t \in timers : TimerFired(t)

SessionSpec == SessionInit /\ [][SessionNext]_vars

\* ------------------------------------------------------------------------
\* Specification of the queues under fair scheduling
\* ------------------------------------------------------------------------
\* the categories each connection queues for; no connection leaves
FairChoices == {<< "s1", "asteroid" >>, << "s2", "asteroid" >>, << "s3", "race" >>}

\* a connection that is a player of some room
InRoom(s) ==
  \E r \in DOMAIN activeRooms :
    activeRooms[r].player1.socketId = s \/ activeRooms[r].player2.socketId = s

\* a session that is under way
Running(r) == r \in DOMAIN activeRooms /\ activeRooms[r].isActive

PurgeSteps == {ROOM_PURGE_DELAY_MS}

\* Players queue when they are in no room, and player 1 ends a session that is
\* under way; the store is down, every insert fails.
FairNext ==
  \/ \E c \in FairChoices : ~InRoom(c[1]) /\ JoinQueue(c[1], c[2]) /\ InBudget
  \/ Tick
  \/ \E d \in PurgeSteps : Advance(d)
  \/ \E c \in inflight : ContentResolved(c)
  \/ \E r \in RoomIds :
       Running(r) /\ EndGame(activeRooms[r].player1.socketId, r) /\ InBudget
  \/ \E c \in inflight : SessionInsertFailed(c)
  \/ \E t \in timers : TimerFired(t)

\* the interval timer keeps firing, time passes, every pending promise settles
\* and every due timeout runs
FairSpec ==
  /\ Init
  /\ [][FairNext]_vars
  /\ WF_vars(Tick)
  /\ WF_vars(\E d \in PurgeSteps : Advance(d))
  /\ WF_vars(\E c \in inflight : ContentResolved(c))
  /\ WF_vars(\E c \in inflight : SessionInsertFailed(c))
  /\ WF_vars(\E t \in timers : TimerFired(t))

\* ------------------------------------------------------------------------
\* Specification of the removal of rooms
\* ------------------------------------------------------------------------
\* The rooms of GameInit start; their players may disconnect, and player 1 may
\* end a session that is under way (the store is down, every insert fails).
\* Pending promises settle, time passes and due timeouts run; what the
\* clients do is up to them.
PurgeNext ==
  \/ \E c \in inflight : ContentResolved(c)
  \/ \E s \in SocketIds : Disconnect(s)
  \/ \E r \in RoomIds :
       Running(r) /\ EndGame(activeRooms[r].player1.socketId, r) /\ InBudget
  \/ \E c \in inflight : SessionInsertFailed(c)
  \/ \E d \in PurgeSteps : Advance(d)
  \/ \E t \in timers : TimerFired(t)

PurgeSpec ==
  /\ GameInit
  /\ [][PurgeNext]_vars
  /\ WF_vars(\E c \in inflight : ContentResolved(c))
  /\ WF_vars(\E c \in inflight : SessionInsertFailed(c))
  /\ WF_vars(\E d \in PurgeSteps : Advance(d))
  /\ WF_vars(\E t \in timers : TimerFired(t))

\* ------------------------------------------------------------------------
\* Specification of the connections: queues, matches and disconnects
\* ------------------------------------------------------------------------
\* the server after startup; player u1 is signed in on two connections, s1 and
\* s3, and player u2 on s2
ConnUserOfSocket == [s \in SocketIds |-> IF s = "s2" THEN "u2" ELSE "u1"]

ConnInit ==
  /\ sockets = [s \in SocketIds |->
                  [connected |-> TRUE, isAuthenticated |-> TRUE,
                   userId |-> ConnUserOfSocket[s], elo |-> StoredElo[ConnUserOfSocket[s]]]]
  /\ matchmakingQueue = [g \in GameTypes |-> << >>]
  /\ queueKeys = << >>
  /\ activeRooms = << >>
  /\ roomCodeMap = << >>
  /\ inflight = {}
  /\ timers = {}
  /\ tickTimer = MATCHMAKING_TICK_MS
  /\ game_sessions = << >>
  /\ elo_ratings = StoredRatings
  /\ user_stats = [u \in UserIds |-> [g \in GameTypes |-> NoRow]]
  /\ outbox = {}
  /\ endLog = {}
  /\ lastScore = NoScore
  /\ lastTick = NoTick
  /\ socketRateLimits = << >>
  /\ lastEvent = NoEvent

\* the categories each connection queues for
ConnChoices == {<< "s1", "race" >>, << "s3", "race" >>, << "s2", "race" >>,
                << "s2", "asteroid" >>}

ConnSteps == {MATCHMAKING_BOT_FALLBACK_MS \div 2}

ConnNext ==
  \/ \E c \in ConnChoices : JoinQueue(c[1], c[2]) /\ InBudget
  \/ \E s \in SocketIds : LeaveQueue(s)
  \/ \E s \in SocketIds : Disconnect(s)
  \/ Tick
  \/ \E d \in ConnSteps : Advance(d)

ConnSpec == ConnInit /\ [][ConnNext]_vars

\* ------------------------------------------------------------------------
\* Specification of the life of the rooms
\* ------------------------------------------------------------------------
\* a client has been told the id of a room: the players of a friend room by
\* roomCreated and playerJoined, the players of a matched room by matchFound or
\* botMatch
Knows(s, r) ==
  /\ r \in DOMAIN activeRooms
  /\ s \in {activeRooms[r].player1.socketId, activeRooms[r].player2.socketId}
  /\ activeRooms[r].mode = "friend" \/ activeRooms[r].startedAt # NoValue

\* From the state of GameInit connection s3 opens friend rooms for race and
\* ends the sessions of the rooms it knows, connection s2 types join codes in
\* either case; the store is down, every insert fails.
RoomNext ==
  \/ CreateRoom("s3", "race") /\ InBudget
  \/ \E roomCode \in TypedCodes : JoinRoom("s2", roomCode) /\ InBudget
  \/ \E c \in inflight : ContentResolved(c)
  \/ \E r \in RoomIds : Knows("s3", r) /\ EndGame("s3", r) /\ InBudget
  \/ \E c \in inflight : SessionInsertFailed(c)
  \/ \E d \in PurgeSteps : Advance(d)
  \/ \E t \in timers : TimerFired(t)

RoomSpec == GameInit /\ [][RoomNext]_vars

\* ------------------------------------------------------------------------
\* Specification of the authentication
\* ------------------------------------------------------------------------
\* The server after startup with three connections that have not
\* authenticated (a handler reads socket.elo?.[gameType] ?? 1000 of them).
\* Connections s1 and s2 send authenticate events with any
\* token, every connection sends the events of the handlers behind
\* requireSocketAuth, and whoever is let through joins and leaves the queue of
\* race.
AuthNext ==
  \/ \E s \in {"s1", "s2"}, token \in {"missing", "invalid", "valid"} :
       Authenticate(s, token)
  \/ \E c \in inflight : TokenVerified(c)
  \/ \E s \in SocketIds,
        event \in {"joinQueue", "leaveQueue", "createRoom", "joinRoom", "submitAnswer",
                   "updateScore", "endGame"} : NotAuthenticated(s, event)
  \/ \E s \in SocketIds : JoinQueue(s, "race") /\ InBudget
  \/ \E s \in SocketIds : LeaveQueue(s)

AuthInit ==
  /\ sockets = [s \in SocketIds |->
                  [connected |-> TRUE, isAuthenticated |-> FALSE, userId |-> NoValue,
                   elo |-> [g \in GameTypes |-> DEFAULT_ELO]]]
  /\ matchmakingQueue = [g \in GameTypes |-> << >>]
  /\ queueKeys = << >>
  /\ activeRooms = << >>
  /\ roomCodeMap = << >>
  /\ inflight = {}
  /\ timers = {}
  /\ tickTimer = MATCHMAKING_TICK_MS
  /\ game_sessions = << >>
  /\ elo_ratings = StoredRatings
  /\ user_stats = [u \in UserIds |-> [g \in GameTypes |-> NoRow]]
  /\ outbox = {}
  /\ endLog = {}
  /\ lastScore = NoScore
  /\ lastTick = NoTick
  /\ socketRateLimits = << >>
  /\ lastEvent = NoEvent

AuthSpec == AuthInit /\ [][AuthNext]_vars

\* ------------------------------------------------------------------------
\* Specification of the results of the bot room and the ranked room
\* ------------------------------------------------------------------------
\* The rooms of GameInit start; s1 and s3 report the score 1 for them (s3 is
\* the human of bot room 1, s1 is player 2 of ranked room 2, and each is no
\* player of the other room), player 1 of a room ends its session while it is
\* under way, and saveGameSession runs to its end.
ResultNext ==
  \/ \E c \in inflight : ContentResolved(c)
  \/ \E s \in {"s1", "s3"}, r \in {1, 2} :
       UpdateScore(s, r, [type |-> "number", v |-> 1]) /\ InBudget
  \/ \E r \in {1, 2} :
       /\ activeRooms[r].isActive
       /\ EndGame(activeRooms[r].player1.socketId, r) /\ InBudget
  \/ \E c \in inflight : SessionInserted(c)
  \/ \E c \in inflight : StatsUpdated(c)
  \/ \E c \in inflight : RatingsRead(c)
  \/ \E c \in inflight : Player1Upserted(c)
  \/ \E c \in inflight : Player2Upserted(c)

ResultSpec == GameInit /\ [][ResultNext]_vars

\* ------------------------------------------------------------------------
\* Specification of the ticks over queues of four connections
\* ------------------------------------------------------------------------
\* Four players are connected (u4 on s4, rated 1450 in both categories). Each
\* category queue holds up to two entries of different players, s2, s3 or s4
\* for race and s1, s2 or s3 for asteroid, each queued just now or 57 s ago;
\* the Map holds the two keys in either order. Then the ticks run, 3 s apart.
TickInit ==
  LET conn == [s \in SocketIds \cup {"s4"} |->
                 IF s = "s4"
                 THEN [connected |-> TRUE, isAuthenticated |-> TRUE, userId |-> "u4",
                       elo |-> [g \in GameTypes |-> 1450]]
                 ELSE [connected |-> TRUE, isAuthenticated |-> TRUE,
                       userId |-> UserOfSocket[s], elo |-> StoredElo[UserOfSocket[s]]]]
      Entries(g, from) ==
        {[socketId |-> s, userId |-> conn[s].userId, elo |-> conn[s].elo[g],
          gameType |-> g, joinedAt |-> Now - waited, botFallbackMs |-> NoValue] :
           s \in from, waited \in {0, 57000}}
      Queues(g, from) ==
        {q \in UNION {[1..n -> Entries(g, from)] : n \in 0..2} :
           \A i, j \in 1..Len(q) : i # j => q[i].userId # q[j].userId}
  IN /\ sockets = conn
     /\ matchmakingQueue \in
          {[g \in GameTypes |-> IF g = "race" THEN r ELSE a] :
             r \in Queues("race", {"s2", "s3", "s4"}),
             a \in Queues("asteroid", {"s1", "s2", "s3"})}
     /\ queueKeys \in {<< "race", "asteroid" >>, << "asteroid", "race" >>}
     /\ activeRooms = << >>
     /\ roomCodeMap = << >>
     /\ inflight = {}
     /\ timers = {}
     /\ tickTimer = 0
     /\ game_sessions = << >>
     /\ elo_ratings = StoredRatings
     /\ user_stats = [u \in UserIds |-> [g \in GameTypes |-> NoRow]]
     /\ outbox = {}
     /\ endLog = {}
     /\ lastScore = NoScore
     /\ lastTick = NoTick
     /\ socketRateLimits = << >>
     /\ lastEvent = NoEvent

\* a tick runs while ids are left for the rooms it creates
TickNext ==
  \/ Len(runMatchmakingTick.made) <= Cardinality(RoomIds \ NamedRoomIds) /\ Tick
  \/ Advance(MATCHMAKING_TICK_MS)

TickSpec == TickInit /\ [][TickNext]_vars

\* ------------------------------------------------------------------------
\* Specification of the session starts with a failing content service
\* ------------------------------------------------------------------------
\* The bot room and the ranked room of GameInit await their content, s3 opens
\* a friend room, and s2 or s3 itself joins by code; the content service
\* answers in any way.
ContentNext ==
  \/ \E c \in inflight,
        reply \in {"pairs", "unreachable", "noJson", "emptyArray", "noValidPair"} :
       ContentGenerated(c, reply)
  \/ CreateRoom("s3", "race") /\ InBudget
  \/ \E s \in {"s2", "s3"}, roomCode \in TypedCodes : JoinRoom(s, roomCode) /\ InBudget

ContentSpec == GameInit /\ [][ContentNext]_vars

\* ------------------------------------------------------------------------
\* Specification of the calls of the rating engine and of the bot rooms
\* ------------------------------------------------------------------------
\* The functions are called with arguments drawn from bounded sets, and each
\* return is observed together with its arguments. calculateNewElo is called
\* for a player at, near and far above the floor, against opponents up to
\* EloSpan away, and returns are taken for loss, draw and win;
\* getSeededStartingElo reads the rows of two other categories.
CallInit ==
  /\ sockets = [s \in SocketIds |->
                  [connected |-> TRUE, isAuthenticated |-> TRUE,
                   userId |-> UserOfSocket[s], elo |-> StoredElo[UserOfSocket[s]]]]
  /\ matchmakingQueue = [g \in GameTypes |-> << >>]
  /\ queueKeys = << >>
  /\ activeRooms = << >>
  /\ roomCodeMap = << >>
  /\ inflight = {}
  /\ timers = {}
  /\ tickTimer = MATCHMAKING_TICK_MS
  /\ game_sessions = << >>
  /\ elo_ratings = StoredRatings
  /\ user_stats = [u \in UserIds |-> [g \in GameTypes |-> NoRow]]
  /\ outbox = {}
  /\ endLog = {}
  /\ lastScore = NoScore
  /\ lastTick = NoTick
  /\ socketRateLimits = << >>
  /\ lastEvent \in
       {[op |-> "call", fn |-> "calculateNewElo", playerElo |-> playerElo,
         opponentElo |-> playerElo + eloDiff, kFactor |-> kFactor] :
          playerElo \in {ELO_MIN_FLOOR, ELO_MIN_FLOOR + 10, ELO_MIN_FLOOR + 30,
                         DEFAULT_ELO},
          eloDiff \in (-EloSpan)..EloSpan,
          kFactor \in {ELO_K_PROVISIONAL, ELO_K_DEVELOPING, ELO_K_ESTABLISHED}}
       \cup {[op |-> "call", fn |-> "getKFactor", gamesPlayed |-> gamesPlayed] :
               gamesPlayed \in 0..MaxGames}
       \cup {[op |-> "call", fn |-> "getSeededStartingElo", others |-> others] :
               others \in
                 [{"asteroid", "match"} ->
                    {NoRow} \cup
                    {[exists |-> TRUE, elo |-> e, peak_elo |-> e, games_played |-> n] :
                       e \in {900, 1000, 1001, 1002, 1500, 1999, 2000, 2001, 2400},
                       n \in {0, ELO_GAMES_ESTABLISHED - 1, ELO_GAMES_ESTABLISHED,
                              MaxGames}}]}
       \cup {[op |-> "call", fn |-> "createBotRoom", roomId |-> roomId,
              player |-> [socketId |-> s, userId |-> UserOfSocket[s], elo |-> elo]] :
               s \in SocketIds, roomId \in RoomIds,
               elo \in {ELO_MIN_FLOOR, BOT_ELO_EASY - 1, BOT_ELO_EASY,
                        BOT_ELO_MEDIUM - 1, BOT_ELO_MEDIUM, 2 * DEFAULT_ELO}}

CallNext ==
  \/ /\ lastEvent.op = "call" /\ lastEvent.fn = "calculateNewElo"
     /\ lastEvent' =
          [op |-> "calculateNewElo", playerElo |-> lastEvent.playerElo,
           opponentElo |-> lastEvent.opponentElo, kFactor |-> lastEvent.kFactor,
           newElo |-> [result2 \in 0..2 |->
                        calculateNewElo(lastEvent.playerElo, lastEvent.opponentElo,
                                        result2, lastEvent.kFactor)]]
     /\ UNCHANGED << connVars, queueVars, roomVars, inflight, timers, dbVars, obsVars >>
  \/ /\ lastEvent.op = "call" /\ lastEvent.fn = "getKFactor"
     /\ lastEvent' = [op |-> "getKFactor", gamesPlayed |-> lastEvent.gamesPlayed,
                      kFactor |-> getKFactor(lastEvent.gamesPlayed),
                      kFactorNextGame |-> getKFactor(lastEvent.gamesPlayed + 1)]
     /\ UNCHANGED << connVars, queueVars, roomVars, inflight, timers, dbVars, obsVars >>
  \/ /\ lastEvent.op = "call" /\ lastEvent.fn = "getSeededStartingElo"
     /\ lastEvent' =
          [op |-> "getSeededStartingElo", others |-> lastEvent.others,
           seededElo |-> getSeededStartingElo(
                           [u \in {"u1"} |-> [g \in {"race", "asteroid", "match"} |->
                              IF g = "race" THEN NoRow ELSE lastEvent.others[g]]],
                           "u1", "race")]
     /\ UNCHANGED << connVars, queueVars, roomVars, inflight, timers, dbVars, obsVars >>
  \/ /\ lastEvent.op = "call" /\ lastEvent.fn = "createBotRoom"
     /\ lastEvent' =
          [op |-> "createBotRoom",
           room |-> createBotRoom(lastEvent.roomId, lastEvent.roomId, "race",
                                  lastEvent.player),
           botConfig |-> getBotConfig(lastEvent.player.elo)]
     /\ UNCHANGED << connVars, queueVars, roomVars, inflight, timers, dbVars, obsVars >>

CallSpec == CallInit /\ [][CallNext]_vars

\* ------------------------------------------------------------------------
\* Specification of the limiter
\* ------------------------------------------------------------------------
\* From the state of GameInit, once the content of the ranked room has
\* arrived: connection s1, player2 of that room, sends events as fast as it
\* likes, each one through checkRate, and may drop; the store and the
\* validator do not answer.
RateNext ==
  \/ \E c \in inflight : c.op = "onHumanMatch" /\ ContentResolved(c)
  \/ checkRate("s1", 5) /\ JoinQueue("s1", "race")
  \/ checkRate("s1", 5) /\ CreateRoom("s1", "race")
  \/ checkRate("s1", 5) /\ JoinRoom("s1", [code |-> 2, letters |-> "upper"])
  \/ checkRate("s1", 5) /\ EndGame("s1", 2)
  \/ checkRate("s1", 60) /\ UpdateScore("s1", 2, [type |-> "number", v |-> 1])
  \/ checkRate("s1", 60) /\ SubmitAnswer("s1", 2, 0)
  \/ \E maxPerWindow \in {5, 60} : RateLimited("s1", maxPerWindow)
  \/ Disconnect("s1")
  \/ Advance(RATE_WINDOW_MS)

RateSpec == GameInit /\ [][RateNext]_vars

\* ------------------------------------------------------------------------
\* Properties of the matchmaking tick (checked on the state a tick leaves)
\* ------------------------------------------------------------------------
Queued(queue, socketId) == \E k \in 1..Len(queue) : queue[k].socketId = socketId

Expired(entry) == WaitMs(entry) >= FallbackMs(entry)

\* the human participants (socket ids) of the rooms a tick created in a category
Seats(gameType) ==
  LET rs == lastTick.created
  IN [k \in 1..Len(rs) |->
        IF rs[k].gameType # gameType THEN {}
        ELSE IF rs[k].mode = "ranked"
             THEN {rs[k].player1.socketId, rs[k].player2.socketId}
             ELSE {rs[k].player1.socketId}]

SeatCount(gameType, socketId) ==
  Cardinality({k \in 1..Len(lastTick.created) : socketId \in Seats(gameType)[k]})

EntryOf(gameType, socketId) ==
  LET queue == lastTick.before[gameType]
  IN queue[CHOOSE k \in 1..Len(queue) : queue[k].socketId = socketId]

\* C1: every entry whose wait had reached its bot-fallback threshold when a
\* tick ran is out of the queue when that tick finishes
C1_ExpiredRemovedOnTick ==
  lastTick.ran =>
    \A g \in GameTypes : \A k \in 1..Len(lastTick.before[g]) :
      Expired(lastTick.before[g][k]) =>
        ~Queued(matchmakingQueue[g], lastTick.before[g][k].socketId)

\* C2: a tick processes every category: each category queue is left as the
\* scan of that category leaves it, whatever was matched in another category
C2_EveryCategoryScanned ==
  lastTick.ran =>
    \A g \in GameTypes :
      matchmakingQueue[g] = ScanQueue(lastTick.before[g], 1, << >>).queue

\* the configured step table: the range allowed after a wait
ConfiguredRange(waitMs) ==
  IF waitMs < 10000 THEN 100
  ELSE IF waitMs < 20000 THEN 200
  ELSE IF waitMs < 30000 THEN 350
  ELSE IF waitMs < 45000 THEN 500
  ELSE Infinity

C9_MatchedExactlyOnce ==
  lastTick.ran =>
    \A g \in GameTypes :
      LET before == lastTick.before[g]
          Stays(e) == SeatCount(g, e.socketId) = 0
      IN /\ matchmakingQueue[g] = SelectSeq(before, Stays)
         /\ \A s \in SocketIds :
              /\ SeatCount(g, s) <= 1
              /\ SeatCount(g, s) = 1 => Queued(before, s) /\ ~Queued(matchmakingQueue[g], s)

\* a human match in a queue of three: the third entry is still queued
C9_Witness ==
  /\ lastTick.ran
  /\ \E g \in GameTypes :
       /\ Len(lastTick.before[g]) = 3
       /\ Len(matchmakingQueue[g]) = 1
       /\ \E k \in 1..Len(lastTick.created) :
            lastTick.created[k].mode = "ranked" /\ lastTick.created[k].gameType = g


\* ------------------------------------------------------------------------
\* Properties of the score events (checked on the state an event leaves)
\* ------------------------------------------------------------------------
\* the slot of a room that holds the player of connection s, "none" for an outsider
SlotOf(room, s) ==
  IF room.player1.userId = UserOfSocket[s] THEN "player1"
  ELSE IF room.player2.userId = UserOfSocket[s] THEN "player2"
  ELSE "none"

NonNumeric(x) == x.type # "number"

Negative(x) == x.type = "number" /\ x.v < 0

\* C6: an update_score event raises the sender's score by at most 1, and a
\* negative or non-numeric reported value leaves it unchanged
C6_ScoreRaisedByAtMostOne ==
  lastScore.ran =>
    LET slot == SlotOf(lastScore.before, lastScore.by)
        before == SlotPlayer(lastScore.before, slot).score
        after == SlotPlayer(activeRooms[lastScore.roomId], slot).score
    IN slot # "none" =>
         /\ after <= before + 1
         /\ (Negative(lastScore.reported) \/ NonNumeric(lastScore.reported)) =>
              after = before

\* C7: an update_score event changes the score of the sender's own slot only,
\* and no score at all when the sender is no player of the room
C7_OnlyOwnSlotUpdated ==
  lastScore.ran =>
    LET slot == SlotOf(lastScore.before, lastScore.by)
        room == activeRooms[lastScore.roomId]
    IN /\ slot # "player1" => room.player1.score = lastScore.before.player1.score
       /\ slot # "player2" => room.player2.score = lastScore.before.player2.score

\* ------------------------------------------------------------------------
\* Properties of the end of a session
\* ------------------------------------------------------------------------
RowsOf(roomId) == {k \in 1..Len(game_sessions) : game_sessions[k].roomId = roomId}

\* C3: for each room at most one row is appended to game_sessions and the
\* rating update is applied at most once, however many endGame events arrive
C3_OneRecordPerRoom ==
  \A r \in RoomIds :
    /\ Cardinality(RowsOf(r)) <= 1
    /\ Cardinality({e \in endLog : e.roomId = r /\ e.rated}) <= 1

\* a row of a ranked game between two human players
RankedHumanRow(row) ==
  /\ row.mode = "ranked"
  /\ row.player1_id \in UserIds
  /\ row.player2_id \in UserIds

\* C4: a rating row differs from the stored one only for a player of a saved
\* ranked session of two humans in that category; a session of any other kind
\* that was saved has its row in game_sessions and its stats row, and its call
\* applied no rating update
C4_RatedOnlyRankedHuman ==
  /\ \A u \in UserIds, g \in GameTypes :
       elo_ratings[u][g] # StoredRatings[u][g] =>
         \E k \in 1..Len(game_sessions) :
           /\ RankedHumanRow(game_sessions[k])
           /\ game_sessions[k].game_type = g
           /\ u \in {game_sessions[k].player1_id, game_sessions[k].player2_id}
  /\ \A e \in endLog :
       ~e.threw =>
         \E k \in RowsOf(e.roomId) :
           /\ game_sessions[k].call = e.call
           /\ user_stats[game_sessions[k].player1_id][game_sessions[k].game_type].exists
           /\ e.rated => RankedHumanRow(game_sessions[k])

\* a bot session won by the human and a friend session were both saved, and
\* no rating row has changed
C4_Witness ==
  /\ elo_ratings = StoredRatings
  /\ \E e \in endLog, k \in 1..Len(game_sessions) :
       /\ ~e.threw /\ game_sessions[k].roomId = e.roomId /\ game_sessions[k].call = e.call
       /\ game_sessions[k].mode = "bot_fallback"
       /\ game_sessions[k].player1_score > game_sessions[k].player2_score
  /\ \E e \in endLog, k \in 1..Len(game_sessions) :
       /\ ~e.threw /\ game_sessions[k].roomId = e.roomId /\ game_sessions[k].call = e.call
       /\ game_sessions[k].mode = "friend"
       /\ game_sessions[k].player2_id \in UserIds

\* C5: when saving the session fails, every connected player of the room still
\* gets a gameResult event, the room is inactive and its purge is scheduled
C5_ResultDespiteFailure ==
  \A e \in endLog :
    e.threw =>
      /\ \A to \in e.players \cap SocketIds :
           sockets[to].connected =>
             \E ev \in outbox :
               ev.event = "gameResult" /\ ev.to = to /\ ev.roomId = e.roomId
                 /\ ev.call = e.call
      /\ e.roomId \in DOMAIN activeRooms => ~activeRooms[e.roomId].isActive
      /\ \/ \E t \in timers : t.roomId = e.roomId /\ t.call = e.call
         \/ e.roomId \notin DOMAIN activeRooms

\* C10: a queue entry whose connection neither leaves nor disconnects (here
\* the race entry of connection s3) is eventually removed from its queue, also
\* while other players keep being matched in another category
C10_QueuedEntryEventuallyLeaves ==
  Queued(matchmakingQueue["race"], "s3") ~> ~Queued(matchmakingQueue["race"], "s3")

\* ------------------------------------------------------------------------
\* Properties of the queue operations
\* ------------------------------------------------------------------------
\* an entry of the connection or of the player is in the queue
AlreadyQueued(queue, socketId, userId) ==
  \E k \in 1..Len(queue) : queue[k].socketId = socketId \/ queue[k].userId = userId

\* C11: no category queue holds two entries of one connection or of one
\* player, and a joinQueue of a connection or player that is already queued in
\* the category leaves every queue as it was: same entries, same joinedAt, same
\* order
C11_JoinQueueIdempotent ==
  /\ \A g \in GameTypes : \A i, j \in 1..Len(matchmakingQueue[g]) :
       i # j => /\ matchmakingQueue[g][i].socketId # matchmakingQueue[g][j].socketId
                /\ matchmakingQueue[g][i].userId # matchmakingQueue[g][j].userId
  /\ lastEvent.op = "joinQueue" =>
       (AlreadyQueued(lastEvent.before[lastEvent.gameType], lastEvent.by,
                      sockets[lastEvent.by].userId)
          => matchmakingQueue = lastEvent.before)

\* player u1 waits in a queue since an earlier clock step on connection s1 and
\* has just sent joinQueue for the same category on connection s3
C11_Witness ==
  /\ lastEvent.op = "joinQueue"
  /\ lastEvent.by = "s3"
  /\ \E k \in 1..Len(lastEvent.before[lastEvent.gameType]) :
       /\ lastEvent.before[lastEvent.gameType][k].socketId = "s1"
       /\ lastEvent.before[lastEvent.gameType][k].userId = sockets["s3"].userId
       /\ lastEvent.before[lastEvent.gameType][k].joinedAt < Now
  /\ matchmakingQueue = lastEvent.before

\* the queues a leaveQueue or disconnect event found
QueuesBefore == IF lastEvent.op = "disconnect" THEN lastEvent.queued ELSE lastEvent.before

\* the connections seated as humans in the rooms the last tick created
SeatedByTick(tick) ==
  UNION {IF tick.created[k].mode = "ranked"
         THEN {tick.created[k].player1.socketId, tick.created[k].player2.socketId}
         ELSE {tick.created[k].player1.socketId} : k \in 1..Len(tick.created)}

\* C12: a leaveQueue or disconnect event leaves in every category exactly the
\* entries of the other connections, in their order; an entry of a connection
\* comes into a queue only by a joinQueue event of that connection, and a tick
\* seats only connections that are queued when it runs
C12_LeaveQueueRemovesEverywhere ==
  /\ [](lastEvent.op \in {"leaveQueue", "disconnect"} =>
          \A g \in GameTypes :
            matchmakingQueue[g] =
              SelectSeq(QueuesBefore[g], LAMBDA q : q.socketId # lastEvent.by))
  /\ [][/\ \A s \in SocketIds, g \in GameTypes :
             (~Queued(matchmakingQueue[g], s) /\ Queued(matchmakingQueue'[g], s))
               => (lastEvent'.op = "joinQueue" /\ lastEvent'.by = s)
        /\ lastTick'.ran =>
             \A s \in SeatedByTick(lastTick') :
               \E g \in GameTypes : Queued(matchmakingQueue[g], s)]_vars

\* connection s2 was queued in both categories, behind and ahead of others,
\* and has just left
C12_Witness ==
  /\ lastEvent.op = "leaveQueue"
  /\ lastEvent.by = "s2"
  /\ \A g \in GameTypes : Queued(lastEvent.before[g], "s2")
  /\ \E g \in GameTypes : Len(lastEvent.before[g]) > 1 /\ Len(matchmakingQueue[g]) > 0

\* ------------------------------------------------------------------------
\* Properties of the life of a room
\* ------------------------------------------------------------------------
\* an endGame event has marked the room ended: its call is in flight or its
\* purge is scheduled
Ended(r) == \E x \in PendingCalls \cup timers : x.roomId = r

\* C13: a room that endGame has marked ended is never active again, also when
\* the content of its session arrives afterwards
C13_EndedNeverActiveAgain ==
  \A r \in DOMAIN activeRooms : Ended(r) => ~activeRooms[r].isActive

\* C14: a room leaves activeRooms only in the step in which a purge timer of
\* that room fires, and that timer is due; its join code leaves roomCodeMap in
\* the same step. A timer is armed only by a finishing endGame call of its
\* room, with the whole ROOM_PURGE_DELAY_MS to run, and the time a timer has
\* left never grows: neither the endGame event nor a repeated one removes the
\* room or shortens the delay of a timer already armed.
C14_PurgedOnlyAfterGrace ==
  [][/\ \A r \in DOMAIN activeRooms \ DOMAIN activeRooms' :
          /\ \E t \in timers \ timers' : t.roomId = r /\ t.dueIn = 0
          /\ activeRooms[r].roomCode \notin DOMAIN roomCodeMap'
     /\ \A r \in DOMAIN activeRooms \cap DOMAIN activeRooms' :
          /\ activeRooms[r].roomCode \in DOMAIN roomCodeMap'
          /\ roomCodeMap'[activeRooms[r].roomCode] = r
     /\ \A t \in timers' :
          IF \E old \in timers : old.call = t.call
          THEN \E old \in timers : old.call = t.call /\ old.roomId = t.roomId
                                     /\ t.dueIn <= old.dueIn
          ELSE /\ t.dueIn = ROOM_PURGE_DELAY_MS
               /\ \E c \in PendingCalls \ inflight' :
                    c.call = t.call /\ c.roomId = t.roomId]_vars

\* a room ended twice has been purged by the timer of its first endGame call
\* and its code is free, while the timer of the second call is still running
C14_Witness ==
  \E t \in timers :
    /\ t.dueIn > 0
    /\ t.roomId \notin DOMAIN activeRooms
    /\ t.roomId \notin DOMAIN roomCodeMap
    /\ \E e \in endLog : e.roomId = t.roomId /\ e.call # t.call

\* ------------------------------------------------------------------------
\* Properties of the limiter
\* ------------------------------------------------------------------------
\* C20: in every step in which the limiter counts an event of connection s1,
\* the event opens a window of RATE_WINDOW_MS with count 1 when s1 has no
\* window or its window has passed, and else adds one to the count of the
\* running window. What joinQueue, createRoom, joinRoom and endGame do happens
\* only while that count is at most 5, what updateScore and submitAnswer do only
\* while it is at most 60, so a window accepts at most 5 of the former and at
\* most 60 of the latter. A refused event was over its budget, adds an error
\* event for s1 to the emitted events and nothing else, and changes no
\* connection, queue, room, score, pending call or timer.
C20_BudgetPerWindow ==
  [][LET before == socketRateLimits
         after == socketRateLimits'
         fresh == "s1" \notin DOMAIN before \/ Now > before["s1"].resetAt
         counted == /\ "s1" \in DOMAIN after
                    /\ \/ "s1" \notin DOMAIN before
                       \/ after["s1"].count # before["s1"].count
                       \/ after["s1"].resetAt > before["s1"].resetAt
         kept == DOMAIN activeRooms \cap DOMAIN activeRooms'
         lowFrequency ==
           \/ matchmakingQueue' # matchmakingQueue
           \/ roomCodeMap' # roomCodeMap
           \/ DOMAIN activeRooms' # DOMAIN activeRooms
           \/ \E c \in inflight' \ inflight : c.op \in {"joinRoom", "endGame"}
           \/ \E r \in kept : \/ activeRooms'[r].player2.userId # activeRooms[r].player2.userId
                              \/ activeRooms'[r].isActive # activeRooms[r].isActive
           \/ lastEvent'.op \in {"joinQueue", "joinRoom"}
         gameplay ==
           \/ lastScore'.ran
           \/ \E c \in inflight' \ inflight : c.op = "submitAnswer"
           \/ \E r \in kept : activeRooms'[r] # activeRooms[r] /\ ~lowFrequency
     IN counted =>
          /\ IF fresh
             THEN after["s1"] = [count |-> 1, resetAt |-> Now + RATE_WINDOW_MS]
             ELSE after["s1"] = [before["s1"] EXCEPT !.count = @ + 1]
          /\ lowFrequency => after["s1"].count <= 5
          /\ gameplay => after["s1"].count <= 60
          /\ fresh => lastEvent'.op # "rateLimited"
          /\ after["s1"].count > 60 => lastEvent'.op = "rateLimited"
          /\ lastEvent'.op = "rateLimited" =>
               /\ lastEvent'.by = "s1"
               /\ after["s1"].count > lastEvent'.maxPerWindow
               /\ outbox' = outbox \cup {Emit("error", "s1", 0)}
               /\ UNCHANGED << sockets, matchmakingQueue, queueKeys, roomVars, inflight,
                               timers, dbVars >>]_vars

\* s1 has sent more events in one window than the window takes: joinQueue and
\* createRoom or joinRoom events, then gameplay events up to 60 in all, and the
\* 61st event has just been refused
C20_Witness ==
  /\ lastEvent.op = "rateLimited"
  /\ lastEvent.maxPerWindow = 60
  /\ socketRateLimits["s1"].count = 61
  /\ \E g \in GameTypes : Queued(matchmakingQueue[g], "s1")
  /\ \E r \in DOMAIN activeRooms : activeRooms[r].player2.socketId = "s1"
                                     /\ activeRooms[r].player2.score > 0

\* ------------------------------------------------------------------------
\* Properties of the disconnect
\* ------------------------------------------------------------------------
\* C15: in the state a disconnect leaves, no category queue has an entry of
\* the connection, the limiter has no counter for it, and every room that
\* seated it as player1 or player2 is still in activeRooms, is inactive, and
\* has had opponentDisconnected emitted to it; no room was deleted.
C15_DisconnectCleansUp ==
  lastEvent.op = "disconnect" =>
    LET s == lastEvent.by
        seated == {r \in DOMAIN lastEvent.before :
                     s \in {lastEvent.before[r].player1.socketId,
                            lastEvent.before[r].player2.socketId}}
    IN /\ \A g \in GameTypes : ~Queued(matchmakingQueue[g], s)
       /\ s \notin DOMAIN socketRateLimits
       /\ DOMAIN activeRooms = DOMAIN lastEvent.before
       /\ \A r \in seated :
            /\ ~activeRooms[r].isActive
            /\ Emit("opponentDisconnected", "room", r) \in outbox

\* the connection that dropped was queued, had a counter in the limiter, was
\* player2 of a started room and player1 of none of the other rooms
C15_Witness ==
  /\ lastEvent.op = "disconnect"
  /\ lastEvent.by \in DOMAIN lastEvent.limits
  /\ \E g \in GameTypes : Queued(lastEvent.queued[g], lastEvent.by)
  /\ \E r \in DOMAIN lastEvent.before :
       /\ lastEvent.before[r].isActive
       /\ lastEvent.before[r].player2.socketId = lastEvent.by
  /\ \E r \in DOMAIN lastEvent.before :
       lastEvent.by \notin {lastEvent.before[r].player1.socketId,
                            lastEvent.before[r].player2.socketId}

\* C16: when the content of a session arrives for a room that is no longer in
\* activeRooms, no room is made or changed and no matchFound, botMatch or
\* gameStart event is emitted for that room.
C16_VanishedRoomGetsNoContent ==
  (lastEvent.op = "startGame" /\ lastEvent.roomId \notin DOMAIN lastEvent.before) =>
    /\ activeRooms = lastEvent.before
    /\ ~\E e \in outbox : /\ e.roomId = lastEvent.roomId
                          /\ e.event \in {"matchFound", "botMatch", "gameStart"}

\* C17: a room has the two seats player1 and player2 and no other. While a
\* room lives its player1 stays who it is and its player2, once filled, is
\* never replaced or cleared; a joinRoom event fills player2 of a room only if
\* it was empty, with the sender, so of the attempts on one code at most one
\* succeeds.
C17_Player2FilledOnce ==
  /\ [](\A r \in DOMAIN activeRooms :
          /\ DOMAIN activeRooms[r] = {"roomId", "roomCode", "gameType", "player1",
                                      "player2", "pairs", "isActive", "startedAt", "mode"}
          /\ activeRooms[r].player1 # NoPlayer)
  /\ [][/\ \A r \in DOMAIN activeRooms \cap DOMAIN activeRooms' :
             /\ activeRooms'[r].player1.socketId = activeRooms[r].player1.socketId
             /\ activeRooms[r].player2 # NoPlayer =>
                  /\ activeRooms'[r].player2.socketId = activeRooms[r].player2.socketId
                  /\ activeRooms'[r].player2.userId = activeRooms[r].player2.userId
             /\ activeRooms'[r].player2.socketId # activeRooms[r].player2.socketId =>
                  /\ lastEvent'.op = "joinRoom"
                  /\ lastEvent'.joined = r
                  /\ activeRooms'[r].player2.socketId = lastEvent'.by
        /\ (lastEvent'.op = "joinRoom" /\ lastEvent'.joined # 0) =>
             activeRooms[lastEvent'.joined].player2 = NoPlayer]_vars

\* connection s2 has joined a friend room by its code and has just sent the
\* code again: the second attempt failed, the room is as it was
C17_Witness ==
  /\ lastEvent.op = "joinRoom"
  /\ lastEvent.joined = 0
  /\ lastEvent.roomCode.code \in DOMAIN roomCodeMap
  /\ LET room == activeRooms[roomCodeMap[lastEvent.roomCode.code]]
     IN /\ room.mode = "friend"
        /\ room.player2.socketId = lastEvent.by
        /\ ~room.isActive
  /\ activeRooms = lastEvent.before

\* C18: no two rooms of activeRooms have the same code, roomCodeMap has
\* exactly the codes of the rooms of activeRooms and maps each to the room that
\* holds it; a room that enters activeRooms gets a code that no room held in
\* the state before.
C18_CodesOfLiveRooms ==
  /\ [](/\ \A r1, r2 \in DOMAIN activeRooms :
             r1 # r2 => activeRooms[r1].roomCode # activeRooms[r2].roomCode
        /\ DOMAIN roomCodeMap = {activeRooms[r].roomCode : r \in DOMAIN activeRooms}
        /\ \A r \in DOMAIN activeRooms : roomCodeMap[activeRooms[r].roomCode] = r)
  /\ [][\A r \in DOMAIN activeRooms' \ DOMAIN activeRooms :
          /\ activeRooms'[r].roomCode \notin DOMAIN roomCodeMap
          /\ \A q \in DOMAIN activeRooms :
               activeRooms[q].roomCode # activeRooms'[r].roomCode]_vars

\* the code the bot room held has gone to a friend room opened after the bot
\* room was purged, with the ranked room still there
C18_Witness ==
  \E r \in DOMAIN activeRooms :
    /\ activeRooms[r].mode = "friend"
    /\ activeRooms[r].roomCode = 1
    /\ roomCodeMap[1] = r
    /\ \E q \in DOMAIN activeRooms : activeRooms[q].mode = "ranked"

\* C19: a joinRoom event whose code, in whatever case it is typed, is the code
\* of no room, or of a room that has a player2, is active or is a bot room,
\* fails: the rooms stay as they were and the sender gets an error event. Any
\* other joinRoom event seats the sender as player2 of the room that holds the
\* code, whether the code is typed in upper or in lower case.
C19_JoinFailsUnchanged ==
  lastEvent.op = "joinRoom" =>
    LET before == lastEvent.before
        targets == {r \in DOMAIN before : before[r].roomCode = lastEvent.roomCode.code}
        refused == \/ targets = {}
                   \/ \E r \in targets : \/ before[r].player2 # NoPlayer
                                         \/ before[r].isActive
                                         \/ before[r].mode = "bot_fallback"
    IN IF refused
       THEN /\ lastEvent.joined = 0
            /\ activeRooms = before
            /\ Emit("error", lastEvent.by, 0) \in outbox
       ELSE /\ lastEvent.joined \in targets
            /\ activeRooms[lastEvent.joined].player2.socketId = lastEvent.by
            /\ \A r \in DOMAIN before \ {lastEvent.joined} : activeRooms[r] = before[r]

\* the code of the bot room, typed in lower case, has just been refused
C19_Witness ==
  /\ lastEvent.op = "joinRoom"
  /\ lastEvent.joined = 0
  /\ lastEvent.roomCode.letters = "lower"
  /\ \E r \in DOMAIN activeRooms :
       /\ activeRooms[r].roomCode = lastEvent.roomCode.code
       /\ activeRooms[r].mode = "bot_fallback"
  /\ Emit("error", lastEvent.by, 0) \in outbox

\* C21: the gameplay events of a window do not use up the budget of the
\* low-frequency events: if a low-frequency event of s1 would be accepted
\* before an updateScore event of s1, it would still be accepted after it.
C21_GameplayLeavesLowBudget ==
  [][(lastScore'.ran /\ lastScore'.by = "s1" /\ "s1" \in DOMAIN socketRateLimits)
       => (checkSocketRateLimit("s1", 5).allowed
             => checkSocketRateLimit("s1", 5).allowed')]_vars

C23_SubmitterScoreOnly ==
  (lastEvent.op = "answerJudged" /\ lastEvent.roomId \in DOMAIN lastEvent.before) =>
    LET before == lastEvent.before[lastEvent.roomId]
        room == activeRooms[lastEvent.roomId]
        slot == SlotOf(before, lastEvent.by)
        gain == IF lastEvent.correct THEN 1 ELSE 0
    IN /\ room.player1.score =
            before.player1.score + (IF slot = "player1" THEN gain ELSE 0)
       /\ room.player2.score =
            before.player2.score + (IF slot = "player2" THEN gain ELSE 0)
       /\ \E e \in outbox : /\ e.event = "answerResult"
                             /\ e.to = lastEvent.by
                             /\ e.roomId = lastEvent.roomId
       /\ Emit("scoreUpdate", "room", lastEvent.roomId) \in outbox

\* ------------------------------------------------------------------------
\* The rating engine
\* ------------------------------------------------------------------------
\* C24: for the same player rating, opponent rating and K-factor the rating
\* returned for a win is at least the one returned for a draw, which is at
\* least the one returned for a loss, and every returned rating is at least
\* ELO_MIN_FLOOR.
C24_MonotonicAboveFloor ==
  lastEvent.op = "calculateNewElo" =>
    /\ lastEvent.newElo[2] >= lastEvent.newElo[1]
    /\ lastEvent.newElo[1] >= lastEvent.newElo[0]
    /\ \A result2 \in 0..2 : lastEvent.newElo[result2] >= ELO_MIN_FLOOR

\* a loss that would take the player below the floor returns the floor
C24_Witness ==
  /\ lastEvent.op = "calculateNewElo"
  /\ lastEvent.playerElo = ELO_MIN_FLOOR + 10
  /\ lastEvent.opponentElo = lastEvent.playerElo
  /\ lastEvent.kFactor = ELO_K_PROVISIONAL
  /\ lastEvent.newElo[0] = ELO_MIN_FLOOR
  /\ lastEvent.newElo[2] > lastEvent.newElo[1]

\* C25: when the floor does not bind, the change applied by calculateNewElo is
\* never zero, has magnitude at least ELO_MIN_CHANGE and has the sign of the
\* raw change kFactor * (result - expected): negative for a loss, positive for
\* a win, and for a draw the sign of opponentElo - playerElo.
C25_ChangeKeepsSign ==
  lastEvent.op = "calculateNewElo" =>
    \A result2 \in 0..2 :
      lastEvent.newElo[result2] > ELO_MIN_FLOOR =>
        LET change == lastEvent.newElo[result2] - lastEvent.playerElo
            eloDiff == lastEvent.opponentElo - lastEvent.playerElo
        IN /\ change # 0
           /\ Abs(change) >= ELO_MIN_CHANGE
           /\ result2 = 0 => change < 0
           /\ result2 = 2 => change > 0
           /\ (result2 = 1 /\ eloDiff > 0) => change > 0
           /\ (result2 = 1 /\ eloDiff < 0) => change < 0

\* C26: getKFactor returns 40 below 15 games, 32 from 15 to 29 games and 20
\* from 30 games on; the value for one more game differs exactly when the game
\* count goes from 14 to 15 or from 29 to 30, and is never larger.
C26_KFactorTiers ==
  lastEvent.op = "getKFactor" =>
    /\ lastEvent.gamesPlayed < 15 => lastEvent.kFactor = 40
    /\ (15 <= lastEvent.gamesPlayed /\ lastEvent.gamesPlayed < 30) => lastEvent.kFactor = 32
    /\ lastEvent.gamesPlayed >= 30 => lastEvent.kFactor = 20
    /\ lastEvent.kFactorNextGame # lastEvent.kFactor <=> lastEvent.gamesPlayed \in {14, 29}
    /\ lastEvent.kFactorNextGame <= lastEvent.kFactor

\* the call for 29 games, where the next game moves the player to the last tier
C26_Witness ==
  /\ lastEvent.op = "getKFactor"
  /\ lastEvent.gamesPlayed = 29
  /\ lastEvent.kFactor = 32
  /\ lastEvent.kFactorNextGame = 20

\* C27: getSeededStartingElo returns 1000 when no other category has a row
\* with at least 30 games or when the highest rating of such rows is at most
\* 1000; otherwise it returns 1000 + (highest - 1000) * 0.4 rounded to the
\* nearest integer and clamped to [1000, 1400]; rows with fewer than 30 games
\* have no influence. (Tenths are used for the product.)
C27_SeedRounded ==
  lastEvent.op = "getSeededStartingElo" =>
    LET established == {lastEvent.others[g].elo : g \in
                          {x \in DOMAIN lastEvent.others :
                             /\ lastEvent.others[x].exists
                             /\ lastEvent.others[x].games_played >= 30}}
    IN IF established = {} \/ \A e \in established : e <= 1000
       THEN lastEvent.seededElo = 1000
       ELSE \E highest \in established, n \in 1000..3000 :
              /\ \A e \in established : e <= highest
              /\ 10 * n - 5 <= 10000 + 4 * (highest - 1000)
              /\ 10000 + 4 * (highest - 1000) < 10 * n + 5
              /\ lastEvent.seededElo = IF n > 1400 THEN 1400 ELSE n

\* a row of 1500 with 30 games seeds 1200 although a row of 2400 with 29 games
\* exists
C27_Witness ==
  /\ lastEvent.op = "getSeededStartingElo"
  /\ lastEvent.others["asteroid"].exists /\ lastEvent.others["match"].exists
  /\ lastEvent.others["asteroid"].elo = 1500
  /\ lastEvent.others["asteroid"].games_played = 30
  /\ lastEvent.others["match"].elo = 2400
  /\ lastEvent.others["match"].games_played = 29
  /\ lastEvent.seededElo = 1200

\* C27 as stated: the value returned is exactly 1000 + (highest - 1000) * 0.4
\* clamped to [1000, 1400], without rounding.
C27_SeedExact ==
  lastEvent.op = "getSeededStartingElo" =>
    LET established == {lastEvent.others[g].elo : g \in
                          {x \in DOMAIN lastEvent.others :
                             /\ lastEvent.others[x].exists
                             /\ lastEvent.others[x].games_played >= 30}}
    IN IF established = {} \/ \A e \in established : e <= 1000
       THEN lastEvent.seededElo = 1000
       ELSE \E highest \in established :
              /\ \A e \in established : e <= highest
              /\ 10 * lastEvent.seededElo =
                   IF 10000 + 4 * (highest - 1000) > 14000 THEN 14000
                   ELSE 10000 + 4 * (highest - 1000)

\* C28: with the floor not binding, for the same player rating and K-factor
\* (win, draw, loss are the changes returned for the three results):
\*  - a win against an opponent at least ELO_UPSET_THRESHOLD above gains at
\*    least 0.9 * kFactor, and a win against any opponent less than that above
\*    gains at most 0.8 * kFactor, so the former is strictly larger;
\*  - the upset win is 1.2 times the gain without the multiplier (the draw's
\*    change plus kFactor / 2), up to the two roundings, and the upset loss is
\*    1.2 times the loss without it;
\*  - every other win is the draw's change plus kFactor / 2 and every other
\*    loss is the draw's change minus kFactor / 2: neither the draw nor an
\*    expected result is multiplied. (A returned change of +1 may stand for a
\*    rounded change of 0 and is left out of the equalities.)
C28_UpsetMultiplier ==
  (/\ lastEvent.op = "calculateNewElo"
   /\ \A result2 \in 0..2 : lastEvent.newElo[result2] > ELO_MIN_FLOOR) =>
    LET eloDiff == lastEvent.opponentElo - lastEvent.playerElo
        win == lastEvent.newElo[2] - lastEvent.playerElo
        draw == lastEvent.newElo[1] - lastEvent.playerElo
        loss == lastEvent.newElo[0] - lastEvent.playerElo
        half == lastEvent.kFactor \div 2
    IN /\ eloDiff >= ELO_UPSET_THRESHOLD => 10 * win >= 9 * lastEvent.kFactor
       /\ eloDiff < ELO_UPSET_THRESHOLD => 10 * win <= 8 * lastEvent.kFactor
       /\ eloDiff >= ELO_UPSET_THRESHOLD =>
            /\ win > draw + half
            /\ Abs(10 * win - 12 * (draw + half)) <= 11
       /\ eloDiff <= -ELO_UPSET_THRESHOLD =>
            /\ loss < draw - half
            /\ Abs(10 * loss - 12 * (draw - half)) <= 11
       /\ (eloDiff < ELO_UPSET_THRESHOLD /\ win # 1 /\ draw # 1) => win = draw + half
       /\ (eloDiff > -ELO_UPSET_THRESHOLD /\ loss # 1 /\ draw # 1) => loss = draw - half

\* the win of a provisional player against an opponent exactly 200 above
C28_Witness ==
  /\ lastEvent.op = "calculateNewElo"
  /\ lastEvent.playerElo = DEFAULT_ELO
  /\ lastEvent.opponentElo = DEFAULT_ELO + ELO_UPSET_THRESHOLD
  /\ lastEvent.kFactor = ELO_K_PROVISIONAL
  /\ lastEvent.newElo[2] = DEFAULT_ELO + 36
  /\ lastEvent.newElo[1] = DEFAULT_ELO + 10
  /\ lastEvent.newElo[0] = DEFAULT_ELO - 10

C30_FailureStartsWithFallback ==
  [][(/\ lastEvent'.op = "startGame"
      /\ lastEvent'.reply # "pairs"
      /\ lastEvent'.roomId \in DOMAIN activeRooms) =>
       /\ activeRooms'[lastEvent'.roomId].isActive
       /\ activeRooms'[lastEvent'.roomId].pairs # << >>
       /\ \E e \in outbox' :
            /\ e.event \in {"matchFound", "botMatch", "gameStart"}
            /\ e.roomId = lastEvent'.roomId
       /\ \A e \in outbox' \ outbox : e.event # "error"]_vars

\* ------------------------------------------------------------------------
\* Ticks and categories
\* ------------------------------------------------------------------------
\* C31: when a tick runs with a category queue that holds exactly two entries,
\* of different players rated at most 100 apart, neither at its fallback
\* threshold, the tick creates a ranked room of that category with these two
\* players, whatever the other category holds.
C31_PairedOnFirstTick ==
  lastTick.ran =>
    \A g \in GameTypes :
      LET queue == lastTick.before[g]
      IN (/\ Len(queue) = 2
          /\ queue[1].userId # queue[2].userId
          /\ Abs(queue[1].elo - queue[2].elo) <= 100
          /\ \A k \in 1..2 : WaitMs(queue[k]) < FallbackMs(queue[k])) =>
           \E n \in 1..Len(lastTick.created) :
             /\ lastTick.created[n].mode = "ranked"
             /\ lastTick.created[n].gameType = g
             /\ {lastTick.created[n].player1.userId, lastTick.created[n].player2.userId}
                  = {queue[1].userId, queue[2].userId}

\* C32: a tick that runs with one entry in all queues leaves the entry queued
\* and creates no room while the entry has waited less than the fallback
\* threshold; once it has waited that long, the tick removes the entry,
\* creates exactly one room, a bot_fallback room with the player as player1,
\* and calls the bot-match hook once for it.
C32_LoneEntryGetsBotAtThreshold ==
  \A g \in GameTypes :
    (/\ lastTick.ran
     /\ Len(lastTick.before[g]) = 1
     /\ \A h \in GameTypes \ {g} : lastTick.before[h] = << >>) =>
      LET entry == lastTick.before[g][1]
      IN IF Now - entry.joinedAt < MATCHMAKING_BOT_FALLBACK_MS
         THEN /\ matchmakingQueue = lastTick.before
              /\ lastTick.created = << >>
         ELSE /\ \A h \in GameTypes : matchmakingQueue[h] = << >>
              /\ Len(lastTick.created) = 1
              /\ lastTick.created[1].mode = "bot_fallback"
              /\ lastTick.created[1].gameType = g
              /\ lastTick.created[1].player1.userId = entry.userId
              /\ lastTick.created[1].player1.socketId = entry.socketId
              /\ lastTick.created[1].roomId \in DOMAIN activeRooms
              /\ activeRooms[lastTick.created[1].roomId] = lastTick.created[1]
              /\ Cardinality({c \in inflight :
                                /\ c.op = "onBotMatch"
                                /\ c.roomId = lastTick.created[1].roomId}) = 1
              /\ \A c \in inflight :
                    c.roomId = lastTick.created[1].roomId =>
                      c.op = "onBotMatch" /\ c.players = << entry.socketId >>

\* the tick at which the lone entry of u1 has waited 60 s
C32_Witness ==
  /\ lastTick.ran
  /\ lastTick.before["race"] = << >>
  /\ Len(lastTick.before["asteroid"]) = 1
  /\ lastTick.before["asteroid"][1].userId = "u1"
  /\ Now - lastTick.before["asteroid"][1].joinedAt = MATCHMAKING_BOT_FALLBACK_MS
  /\ Len(lastTick.created) = 1
  /\ lastTick.created[1].mode = "bot_fallback"
  /\ matchmakingQueue["asteroid"] = << >>

\* ------------------------------------------------------------------------
\* Results
\* ------------------------------------------------------------------------
\* C33: the winner of a stored session and the winner of the gameResult
\* events of the same end of session are the same: player 1 when its stored
\* score is strictly higher, the other participant when that one's is, nobody
\* on a tie.
C33_StoredWinnerIsAnnounced ==
  \A k \in 1..Len(game_sessions) :
    \A e \in outbox :
      (/\ e.event = "gameResult"
       /\ e.roomId = game_sessions[k].roomId
       /\ e.call = game_sessions[k].call) =>
        LET row == game_sessions[k]
        IN /\ e.winner = row.winner_id
           /\ row.player1_score > row.player2_score => e.winner = row.player1_id
           /\ row.player2_score > row.player1_score =>
                e.winner # Null /\ e.winner # row.player1_id
           /\ row.player1_score = row.player2_score => e.winner = Null

\* ------------------------------------------------------------------------
\* Answers
\* ------------------------------------------------------------------------
\* C34: no score of a room exceeds the number of its questions, and one
\* question index raises a player's score at most once: two answerResult
\* events that tell the same player a correct answer for the same question of
\* the same room carry the same new score.
C34_QuestionScoresOnce ==
  /\ \A r \in DOMAIN activeRooms :
       activeRooms[r].isActive =>
         /\ activeRooms[r].player1.score <= Len(activeRooms[r].pairs)
         /\ activeRooms[r].player2.score <= Len(activeRooms[r].pairs)
  /\ \A e1, e2 \in {e \in outbox : e.event = "answerResult"} :
       (/\ e1.to = e2.to /\ e1.roomId = e2.roomId
        /\ e1.questionIndex = e2.questionIndex
        /\ e1.correct /\ e2.correct) => e1.newScore = e2.newScore

\* ------------------------------------------------------------------------
\* Participants
\* ------------------------------------------------------------------------
\* C35: in every room with two participants they are different players on
\* different connections.
C35_ParticipantsDiffer ==
  \A r \in DOMAIN activeRooms :
    activeRooms[r].player2 # NoPlayer =>
      /\ activeRooms[r].player1.userId # activeRooms[r].player2.userId
      /\ activeRooms[r].player1.socketId # activeRooms[r].player2.socketId

\* C36: no session is under way with a missing participant: every human
\* participant of an active room is connected (a disconnect makes the rooms
\* of the connection inactive, and no later step makes them active).
C36_ActiveRoomsHaveTheirPlayers ==
  \A r \in DOMAIN activeRooms :
    activeRooms[r].isActive =>
      \A p \in {activeRooms[r].player1, activeRooms[r].player2} :
        p.socketId \in SocketIds => sockets[p.socketId].connected

\* ------------------------------------------------------------------------
\* Removal of rooms
\* ------------------------------------------------------------------------
\* C37: a room that was abandoned by a disconnect of one of its players, or
\* whose session has ended, is eventually removed (here: ranked room 2 of s2
\* and s1).
C37_AbandonedRoomPurged ==
  (/\ 2 \in DOMAIN activeRooms
   /\ \/ ~sockets["s1"].connected
      \/ ~sockets["s2"].connected
      \/ activeRooms[2].startedAt # NoValue /\ ~activeRooms[2].isActive)
    ~> (2 \notin DOMAIN activeRooms)

\* C38: no player is a participant of two rooms whose sessions have both not
\* yet ended (a room's session has ended when it was started and is inactive).
C38_OneUnfinishedRoomPerPlayer ==
  \A r1, r2 \in DOMAIN activeRooms :
    (/\ r1 # r2
     /\ activeRooms[r1].startedAt = NoValue \/ activeRooms[r1].isActive
     /\ activeRooms[r2].startedAt = NoValue \/ activeRooms[r2].isActive)
      => \A p1 \in {activeRooms[r1].player1, activeRooms[r1].player2} \ {NoPlayer},
            p2 \in {activeRooms[r2].player1, activeRooms[r2].player2} \ {NoPlayer} :
           p1.userId # p2.userId

\* ------------------------------------------------------------------------
\* Scores of an ended session
\* ------------------------------------------------------------------------
\* C39: once the session of a room has ended (the room was started and is
\* inactive), no step changes the score of either participant while the room
\* is kept.
C39_EndedScoresFrozen ==
  [][\A r \in DOMAIN activeRooms \cap DOMAIN activeRooms' :
       (activeRooms[r].startedAt # NoValue /\ ~activeRooms[r].isActive)
         => /\ activeRooms'[r].player1.score = activeRooms[r].player1.score
            /\ activeRooms'[r].player2.score = activeRooms[r].player2.score]_vars

\* ------------------------------------------------------------------------
\* Rating rows
\* ------------------------------------------------------------------------
\* C40: after every step each stored rating row has peak_elo >= elo >=
\* ELO_MIN_FLOOR, and the peak_elo of a row that was there before the step is
\* not lower than it was.
C40_PeakAboveRatingAboveFloor ==
  [][\A u \in DOMAIN elo_ratings : \A g \in DOMAIN elo_ratings[u] :
       elo_ratings'[u][g].exists =>
         /\ elo_ratings'[u][g].peak_elo >= elo_ratings'[u][g].elo
         /\ elo_ratings'[u][g].elo >= ELO_MIN_FLOOR
         /\ elo_ratings[u][g].exists =>
              elo_ratings'[u][g].peak_elo >= elo_ratings[u][g].peak_elo]_vars

====
